---- MODULE Spec2Model ----
(***************************************************************************)
(* xboto: lazily created, cached boto clients/resources that are looked up *)
(* through the current BotoSession dependency (src/xboto/dependencies.py). *)
(*                                                                         *)
(* Objects are identified by their allocation index: scopes[i] is the i-th *)
(* BotoSession object, sessions[i] the i-th boto3.Session, handles[i] the  *)
(* i-th boto object.  A descriptor instance is <<t, cls, 0>>, the default  *)
(* instance of class cls in thread t, or <<0, cls, n>>, the n-th instance  *)
(* a program constructed itself (deps[n]).  Object identity (`is`) is      *)
(* equality of these identifiers.                                          *)
(***************************************************************************)
EXTENDS Integers, Sequences, FiniteSets, TLC

\* ------------------------------------------------------------------ bounds
MaxScopes   == 3
MaxDeps     == 2
MaxSessions == 2
MaxHandles  == 2
MaxDepth    == 2

Threads == {1, 2}

\* Facade objects of one class: the default instance, which the proxies
\* resolve to, and one the program constructed itself.
Facades == {1, 2}
Kinds   == {"client", "resource"}

\* Raw attribute names, as sequences of characters.
RawNames == { <<"d", "_", "b">>, <<"D", "-", "b", "_">> }

\* Raw names boto3 has no service for: the creation method raises.
UnsupportedRaw == { <<"x">> }

\* Values for the keyword options; "None" is Python's None.
SessionInitArgs == { [region_name |-> "None"], [region_name |-> "r1"] }
BotoInitArgs    == { [region_name |-> "None", endpoint_url |-> "None"],
                     [region_name |-> "None", endpoint_url |-> "e1"] }

\* --------------------------------------------------------- pure functions
Lower(c) ==
    CASE c = "D" -> "d"
      [] c = "B" -> "b"
      [] c = "X" -> "x"
      [] OTHER   -> c

\* boto_name.replace("_", "-")
ReplaceUnderscore(s) == [i \in 1..Len(s) |-> IF s[i] = "_" THEN "-" ELSE s[i]]

\* boto_name.lower()
LowerName(s) == [i \in 1..Len(s) |-> Lower(s[i])]

\* Nothing is removed at the end.
StripNothing(s) == s

\* if boto_name.endswith("-"): boto_name = boto_name[:-1]
StripTrailing(s) ==
    IF Len(s) > 0 /\ s[Len(s)] = "-" THEN SubSeq(s, 1, Len(s) - 1) ELSE s

\* A normalization that leaves the case of the letters alone.
normalizeKeepingCase(raw) == StripTrailing(ReplaceUnderscore(raw))

\* A normalization that looks at the end of the name before "_" is replaced.
normalizeStrippingFirst(raw) == LowerName(ReplaceUnderscore(StripTrailing(raw)))

\* _get_dependency_cls: the name the registry is keyed by
normalize(raw) == StripTrailing(LowerName(ReplaceUnderscore(raw)))

\* A name with the private marker: no boto3 service name starts with "-".
PrivateRaw == { <<"_", "x">> }

NormNames   == { normalize(r) : r \in RawNames \cup UnsupportedRaw \cup PrivateRaw }
Unsupported == { normalize(r) : r \in UnsupportedRaw \cup PrivateRaw }
Classes   == Kinds \X NormNames

\* args = {k: v for k, v in locals().items() if v is not None}
StoredArgs(args) == { <<k, args[k]>> : k \in { x \in DOMAIN args : args[x] # "None" } }

SessionKwargs == { StoredArgs(a) : a \in SessionInitArgs }
BotoKwargs    == { StoredArgs(a) : a \in BotoInitArgs }

HasEndpoint(kw) == \E p \in kw : p[1] = "endpoint_url"

\* ------------------------------------------------------------------ state
VARIABLES
    registry,      \* _dependency_classes: kind -> set of registered names
    deps,          \* descriptor instances a program constructed: [cls, kwargs]
    rootKwargs,    \* _boto_kwargs of the default instance per thread and class
    scopes,        \* BotoSession objects
    sessions,      \* boto3.Session objects
    handles,       \* boto clients/resources
    stack,         \* per thread: activated dependencies, innermost last
    last,          \* per thread: the handle its last facade access returned
    saved,         \* per thread: `last` of the enclosing levels
    assigned,      \* descriptor whose boto_kwargs were assigned, no get() since
    sess,          \* per thread: what its last read of boto_session.session returned
    classes,       \* the descriptor classes, in the order `type(...)` created them
    looked,        \* the last _get_dependency_cls call and the class it returned
    dicts,         \* dict objects holding keyword options
    refs,          \* who refers to which dict object
    table,         \* _dependency_classes: kind -> {<<boto name, class>>}
    pend,          \* per thread: its _get_dependency_cls call in progress
    out,           \* what the last facade-level operation returned or raised
    attrs          \* per facade object: the instance attributes set on it

vars == <<registry, deps, rootKwargs, scopes, sessions, handles, stack, last, saved,
          assigned, sess, classes, looked, dicts, refs, table, pend, out, attrs>>

\* What a class lookup reads and writes.
lookup == <<classes, looked, table, pend, out, attrs>>

\* The class table and the dict objects, which only some operations touch.
aux == <<lookup, dicts, refs>>

\* Everything else.
core == <<registry, deps, rootKwargs, scopes, sessions, handles, stack, last, saved,
          assigned, sess>>

Error    == -1
RootScope == 1
SessionCls == <<"session", <<>>>>

NoDep == <<0, <<"none", <<>>>>, 0>>

\* _boto_kwargs of an instance constructed without arguments
DefaultKwargs == StoredArgs([region_name |-> "None", endpoint_url |-> "None"])

NoLast == [h |-> 0, via |-> "none"]

NoLookup == [kind |-> "none", raw |-> <<>>, cls |-> 0, how |-> "none"]

\* No _get_dependency_cls call in progress, none finished.
NoPend == [stage |-> "idle", kind |-> "none", raw |-> <<>>, cls |-> 0]

\* Nothing looked up through a facade yet.
NoOut == [op |-> "none", kind |-> "none", key |-> <<>>, res |-> "none",
          val |-> 0, err |-> "none", msg |-> <<>>, runs |-> 0]

\* The dict objects that exist after import: _boto_kwargs of the default
\* descriptor instance and _session_kwargs of the default BotoSession.
BotoDict    == 1
SessionDict == 2

Init ==
    /\ registry = [k \in Kinds |-> {}]
    /\ deps = <<>>
    /\ rootKwargs = [o \in Threads |-> [c \in Classes |-> DefaultKwargs]]
    /\ scopes = << [session |-> 0, kwargs |-> {}, store |-> {},
                    reset_session_when_activated |-> FALSE,
                    kept |-> TRUE, users |-> Threads] >>
    /\ sessions = <<>>
    /\ handles = <<>>
    /\ stack = [t \in Threads |-> <<>>]
    /\ last = [t \in Threads |-> NoLast]
    /\ saved = [t \in Threads |-> <<>>]
    /\ assigned = NoDep
    /\ sess = [t \in Threads |-> 0]
    /\ classes = <<>>
    /\ looked = NoLookup
    /\ dicts = << {}, {} >>
    /\ refs = [boto |-> BotoDict, session |-> SessionDict, held |-> {},
              v |-> [id |-> 0, items |-> {}, to |-> "none"], got |-> 0]
    /\ table = [k \in Kinds |-> {}]
    /\ pend = [t \in Threads |-> NoPend]
    /\ out = NoOut
    /\ attrs = [f \in Facades |-> {}]

\* -------------------------------------------------- dependency resolution
\* Innermost activated object of class cls on a stack, 0 if none.
TopOf(stk, cls) ==
    LET idx == { i \in 1..Len(stk) : stk[i].cls = cls }
    IN  IF idx = {} THEN 0
        ELSE stk[CHOOSE i \in idx : \A j \in idx : j <= i].obj

CurrentSessionIgnoringOverride(t) == RootScope

\* BotoSession.grab(): the innermost activated BotoSession of the calling
\* thread; BotoSession declares no thread flag, so the default instance is
\* the process-wide one.
CurrentSession(t) ==
    LET top == TopOf(stack[t], SessionCls)
    IN  IF top # 0 THEN top ELSE RootScope

\* The default instance whatever is activated.
GrabDepIgnoringOverride(t, cls) == <<t, cls, 0>>

\* cls.grab(): the innermost activated instance of cls, else the default
\* instance of the calling thread (resource_thread_safe = False), which is
\* constructed without arguments the first time it is asked for.
GrabDep(t, cls) ==
    LET top == TopOf(stack[t], cls)
    IN  IF top # 0 THEN <<0, cls, top>> ELSE <<t, cls, 0>>

\* self._boto_kwargs of instance d
KwargsOf(d, dps, rkw) == IF d[3] = 0 THEN rkw[d[1]][d[2]] ELSE dps[d[3]].kwargs

\* _get_dependency_cls: normalize and register.
Register(kind, raw) == [registry EXCEPT ![kind] = @ \cup {normalize(raw)}]

\* A store keyed by the boto name alone.
StoreGetByName(store, d) ==
    IF \E p \in store : p[1][2][2] = d[2][2]
    THEN (CHOOSE p \in store : p[1][2][2] = d[2][2])[2]
    ELSE 0

\* self._boto_obj_store.get(dependency), 0 = no entry
StoreGet(store, d) ==
    IF \E p \in store : p[1] = d
    THEN (CHOOSE p \in store : p[1] = d)[2]
    ELSE 0

\* The object is returned without being stored.
StoreKeep(store, d, h) == store

\* self._boto_obj_store[dependency] = boto_obj
StorePut(store, d, h) == { p \in store : p[1] # d } \cup { <<d, h>> }

\* The whole store is emptied.
StorePopAll(store, d) == {}

\* self._boto_obj_store.pop(dependency, None)
StorePop(store, d) == { p \in store : p[1] # d }

ForceCreateAlways(kw)          == TRUE
ForceCreateWithoutEndpoint(kw) == ~HasEndpoint(kw)
ForceCreateWithEndpoint(kw)    == HasEndpoint(kw)

\* get() calls _boto_obj_for_dependency(self, constructor): force_create is
\* not passed and keeps its default.
ForceCreate(kw) == FALSE

ConstructorScopeDefault(t) == RootScope

\* The scope whose session the constructor uses: boto_session.session
ConstructorScope(t) == CurrentSession(t)

PushEverywhere(t, frame) == [u \in Threads |-> Append(stack[u], frame)]

\* Dependency.__enter__: the object becomes current for the calling thread.
Push(t, frame) == [stack EXCEPT ![t] = Append(@, frame)]

PopUnlessRaised(t, how) ==
    IF how = "raise" THEN stack ELSE [stack EXCEPT ![t] = SubSeq(@, 1, Len(@) - 1)]

\* Dependency.__exit__: runs on every way out of the `with` block.
Pop(t, how) == [stack EXCEPT ![t] = SubSeq(@, 1, Len(@) - 1)]

\* ------------------------------------------------------------- BotoSession
\* A read that constructs a session every time.
SessionPropAlwaysBuilds(s, t) ==
    [sid |-> Len(sessions) + 1,
     scopes |-> [scopes EXCEPT ![s].session = Len(sessions) + 1],
     sessions |-> Append(sessions, [kwargs |-> scopes[s].kwargs,
                                     scope |-> s, by |-> t])]

\* BotoSession.session (property): lazily build the boto3.Session of scope s.
SessionProp(s, t) ==
    IF scopes[s].session # 0
    THEN [sid |-> scopes[s].session, scopes |-> scopes, sessions |-> sessions]
    ELSE [sid |-> Len(sessions) + 1,
          scopes |-> [scopes EXCEPT ![s].session = Len(sessions) + 1],
          sessions |-> Append(sessions, [kwargs |-> scopes[s].kwargs,
                                          scope |-> s, by |-> t])]

\* Resets that leave something behind.
ResetSessionOfNothing(scs, s)      == scs
ResetSessionKeepingStore(scs, s)   == [scs EXCEPT ![s].session = 0]

\* BotoSession.reset_session on scope s of the scope table scs.
ResetSessionOf(scs, s) == [scs EXCEPT ![s].session = 0, ![s].store = {}]

\* A hook that resets whatever the flag says.
ContextResourceForCopyResets(scs, s) == ResetSessionOf(scs, s)

\* A hook that never resets.
ContextResourceForCopyKeeps(scs, s) == scs

\* context_resource_for_copy: the hook run when scope s is activated.
ContextResourceForCopy(scs, s) ==
    IF scs[s].reset_session_when_activated THEN ResetSessionOf(scs, s) ELSE scs

\* bool(boto_obj) is False: the condition of line 134 tests the object the
\* store holds, not whether it holds one.  (Error stands for no object.)
Falsy(h) == h > 0 /\ handles[h].falsy

\* A cache that stores what the constructor left behind when it raised.
BotoObjForDependencyStoringFailure(t, d, force_create) ==
    LET s     == CurrentSession(t)
        entry == StoreGet(scopes[s].store, d)
    IN  IF ~force_create /\ entry # 0 /\ ~Falsy(entry)
        THEN [h |-> entry, scopes |-> scopes, sessions |-> sessions,
              handles |-> handles]
        ELSE LET sp == SessionProp(ConstructorScope(t), t)
                 h  == Len(handles) + 1
             IN  IF d[2][2] \in Unsupported
                 THEN [h |-> Error,
                       scopes |-> [sp.scopes EXCEPT ![s].store = StorePut(@, d, Error)],
                       sessions |-> sp.sessions, handles |-> handles]
                 ELSE [h |-> h,
                       scopes |-> [sp.scopes EXCEPT ![s].store = StorePut(@, d, h)],
                       sessions |-> sp.sessions,
                       handles |-> Append(handles,
                           [kind |-> d[2][1], name |-> d[2][2],
                            kwargs |-> KwargsOf(d, deps, rootKwargs),
                            session |-> sp.sid,
                            by |-> t, falsy |-> FALSE])]

\* _boto_obj_for_dependency(dependency, constructor, force_create) on the
\* current scope of thread t, with the constructor defined in get().
\* h = Error when the constructor raises.
BotoObjForDependency(t, d, force_create) ==
    LET s     == CurrentSession(t)
        entry == StoreGet(scopes[s].store, d)
    IN  IF ~force_create /\ entry # 0 /\ ~Falsy(entry)
        THEN [h |-> entry, scopes |-> scopes, sessions |-> sessions,
              handles |-> handles]
        ELSE LET sp == SessionProp(ConstructorScope(t), t)
                 h  == Len(handles) + 1
             IN  IF d[2][2] \in Unsupported
                 THEN [h |-> Error, scopes |-> sp.scopes,
                       sessions |-> sp.sessions, handles |-> handles]
                 ELSE [h |-> h,
                       scopes |-> [sp.scopes EXCEPT ![s].store = StorePut(@, d, h)],
                       sessions |-> sp.sessions,
                       handles |-> Append(handles,
                           [kind |-> d[2][1], name |-> d[2][2],
                            kwargs |-> KwargsOf(d, deps, rootKwargs),
                            session |-> sp.sid,
                            by |-> t, falsy |-> FALSE])]

\* How often _boto_obj_for_dependency invokes the constructor.
ConstructorRuns(t, d, force_create) ==
    LET entry == StoreGet(scopes[CurrentSession(t)].store, d)
    IN  IF ~force_create /\ entry # 0 /\ ~Falsy(entry) THEN 0 ELSE 1

\* ------------------------------------------------------- garbage objects
\* A boto object no cache refers to, and a boto3.Session no scope refers to,
\* is garbage: only its identity is kept.
DeadHandle  == [kind |-> "dead", name |-> <<>>, kwargs |-> {}, session |-> 0, by |-> 0,
                falsy |-> FALSE]
DeadSession == [kwargs |-> {}, scope |-> 0, by |-> 0]
DeadScope   == [session |-> 0, kwargs |-> {}, store |-> {},
                reset_session_when_activated |-> FALSE, kept |-> FALSE,
                users |-> {}]

LiveHandles(scs)  == UNION { { p[2] : p \in scs[s].store } : s \in 1..Len(scs) }
LiveSessions(scs) == { scs[s].session : s \in 1..Len(scs) }

CollectHandles(hs, scs) ==
    [h \in 1..Len(hs) |-> IF h \in LiveHandles(scs) THEN hs[h] ELSE DeadHandle]

CollectSessions(ss, scs) ==
    [i \in 1..Len(ss) |-> IF i \in LiveSessions(scs) THEN ss[i] ELSE DeadSession]

\* ------------------------------------------------- observation bookkeeping
\* An operation that drops cached objects ends every pending observation.
ClearedLast  == [u \in Threads |-> NoLast]
ClearedSaved == [u \in Threads |-> [i \in 1..Len(saved[u]) |-> NoLast]]
ClearedSess  == [u \in Threads |-> 0]

\* How the handle h that an access returns relates to the observation o:
\* "again" - the handle of the previous access at this level, "back" - the
\* handle seen before an override that has exited, "direct" - otherwise.
ViaAfter(o, h) ==
    IF h = Error \/ h # o.h THEN "direct"
    ELSE IF o.via = "restored" THEN "back" ELSE "again"

\* ----------------------------------------------------------------- actions
\* facade.<name> / facade.load(name):
\*   get_dependency_cls(name).grab().get()
Access(t, kind, raw) ==
    LET cls == <<kind, normalize(raw)>>
        d   == GrabDep(t, cls)
        r   == BotoObjForDependency(t, d, ForceCreate(KwargsOf(d, deps, rootKwargs)))
    IN  /\ Len(r.sessions) <= MaxSessions
        /\ Len(r.handles) <= MaxHandles
        /\ registry' = Register(kind, raw)
        /\ scopes' = r.scopes
        /\ sessions' = r.sessions
        /\ handles' = CollectHandles(r.handles, r.scopes)
        /\ last' = [last EXCEPT ![t] = [h |-> r.h, via |-> ViaAfter(last[t], r.h)]]
        /\ assigned' = IF assigned = d THEN NoDep ELSE assigned
        /\ UNCHANGED <<deps, rootKwargs, stack, saved, sess>>

\* boto_session.session
ReadSession(t) ==
    LET sp == SessionProp(CurrentSession(t), t)
    IN  /\ Len(sp.sessions) <= MaxSessions
        /\ scopes' = sp.scopes
        /\ sessions' = sp.sessions
        /\ sess' = [sess EXCEPT ![t] = sp.sid]
        /\ UNCHANGED <<registry, deps, rootKwargs, handles, stack, last, saved, assigned>>

\* boto_session.reset_session()
ResetSession(t) ==
    /\ scopes' = ResetSessionOf(scopes, CurrentSession(t))
    /\ sessions' = CollectSessions(sessions, scopes')
    /\ handles' = CollectHandles(handles, scopes')
    /\ last' = ClearedLast
    /\ saved' = ClearedSaved
    /\ sess' = ClearedSess
    /\ UNCHANGED <<registry, deps, rootKwargs, stack, assigned>>

\* boto_session.session_kwargs = value
SetSessionKwargs(t, value) ==
    LET s == CurrentSession(t)
    IN  /\ scopes' = ResetSessionOf([scopes EXCEPT ![s].kwargs = value], s)
        /\ sessions' = CollectSessions(sessions, scopes')
        /\ handles' = CollectHandles(handles, scopes')
        /\ last' = ClearedLast
        /\ saved' = ClearedSaved
        /\ sess' = ClearedSess
        /\ UNCHANGED <<registry, deps, rootKwargs, stack, assigned>>

\* get_dependency_cls(name).grab().reset()
ResetDescriptor(t, kind, raw) ==
    LET cls == <<kind, normalize(raw)>>
        d   == GrabDep(t, cls)
        s   == CurrentSession(t)
    IN  /\ registry' = Register(kind, raw)
        /\ scopes' = [scopes EXCEPT ![s].store = StorePop(@, d)]
        /\ handles' = CollectHandles(handles, scopes')
        /\ last' = ClearedLast
        /\ saved' = ClearedSaved
        /\ UNCHANGED <<deps, rootKwargs, sessions, stack, assigned, sess>>

\* get_dependency_cls(name).grab().boto_kwargs = value
SetBotoKwargs(t, kind, raw, value) ==
    LET cls == <<kind, normalize(raw)>>
        d   == GrabDep(t, cls)
        s   == CurrentSession(t)
    IN  /\ registry' = Register(kind, raw)
        /\ deps' = IF d[3] = 0 THEN deps ELSE [deps EXCEPT ![d[3]].kwargs = value]
        /\ rootKwargs' = IF d[3] = 0 THEN [rootKwargs EXCEPT ![t][cls] = value]
                          ELSE rootKwargs
        /\ scopes' = [scopes EXCEPT ![s].store = StorePop(@, d)]
        /\ handles' = CollectHandles(handles, scopes')
        /\ last' = ClearedLast
        /\ saved' = ClearedSaved
        /\ assigned' = d
        /\ UNCHANGED <<sessions, stack, sess>>

\* with BotoSession(**args, reset_session_when_activated=flag):
EnterSession(t, args, flag) ==
    LET s == Len(scopes) + 1
        created == Append(scopes, [session |-> 0, kwargs |-> StoredArgs(args),
                      store |-> {}, reset_session_when_activated |-> flag,
                      kept |-> FALSE, users |-> {t}])
    IN  /\ Len(scopes) < MaxScopes
        /\ Len(stack[t]) < MaxDepth
        /\ scopes' = ContextResourceForCopy(created, s)
        /\ stack' = Push(t, [cls |-> SessionCls, obj |-> s,
                             before |-> CurrentSession(t)])
        /\ saved' = [saved EXCEPT ![t] = Append(@, last[t])]
        /\ last' = [last EXCEPT ![t] = NoLast]
        /\ sess' = [sess EXCEPT ![t] = 0]
        /\ UNCHANGED <<registry, deps, rootKwargs, sessions, handles, assigned>>

\* deco = BotoSession(**args, reset_session_when_activated=flag):
\* the program keeps the object to activate it later (as a decorator).
Decorate(t, args, flag) ==
    /\ Len(scopes) < MaxScopes
    /\ scopes' = Append(scopes, [session |-> 0, kwargs |-> StoredArgs(args),
                    store |-> {}, reset_session_when_activated |-> flag,
                    kept |-> TRUE, users |-> {}])
    /\ UNCHANGED <<registry, deps, rootKwargs, sessions, handles, stack, last,
                   saved, assigned, sess>>

\* An object the program kept and that is not active anywhere is activated
\* (a BotoSession used as a decorator is entered on every call).
Activate(t, s) ==
    /\ s \in 1..Len(scopes)
    /\ s # RootScope
    /\ scopes[s].kept
    /\ \A u \in Threads : \A i \in 1..Len(stack[u]) :
            ~(stack[u][i].cls = SessionCls /\ stack[u][i].obj = s)
    /\ Len(stack[t]) < MaxDepth
    /\ scopes' = [ContextResourceForCopy(scopes, s) EXCEPT ![s].users = @ \cup {t}]
    /\ sessions' = CollectSessions(sessions, scopes')
    /\ handles' = CollectHandles(handles, scopes')
    /\ stack' = Push(t, [cls |-> SessionCls, obj |-> s,
                         before |-> CurrentSession(t)])
    /\ saved' = IF scopes[s].reset_session_when_activated
                THEN [ClearedSaved EXCEPT ![t] = Append(@, NoLast)]
                ELSE [saved EXCEPT ![t] = Append(@, last[t])]
    /\ last' = IF scopes[s].reset_session_when_activated
               THEN ClearedLast
               ELSE [last EXCEPT ![t] = NoLast]
    /\ sess' = IF scopes[s].reset_session_when_activated
               THEN ClearedSess
               ELSE [sess EXCEPT ![t] = 0]
    /\ UNCHANGED <<registry, deps, rootKwargs, assigned>>

\* with Facade.<TypeName>(**args):  a new descriptor instance is activated
EnterDescriptor(t, kind, raw, args) ==
    LET cls == <<kind, normalize(raw)>>
        d   == Len(deps) + 1
    IN  /\ Len(deps) < MaxDeps
        /\ Len(stack[t]) < MaxDepth
        /\ registry' = Register(kind, raw)
        /\ deps' = Append(deps, [cls |-> cls, kwargs |-> StoredArgs(args)])
        /\ stack' = Push(t, [cls |-> cls, obj |-> d,
                             before |-> CurrentSession(t)])
        /\ saved' = [saved EXCEPT ![t] = Append(@, NoLast)]
        /\ last' = [last EXCEPT ![t] = NoLast]
        /\ UNCHANGED <<rootKwargs, scopes, sessions, handles, assigned, sess>>

\* Leaving the innermost `with` block, by falling off its end ("return") or
\* by an exception propagating out of it ("raise").
Exit(t, how) ==
    LET old == saved[t][Len(saved[t])]
        top == stack[t][Len(stack[t])]
    IN  /\ stack[t] # <<>>
        /\ stack' = Pop(t, how)
        \* the BotoSession a `with` statement constructed is unreachable now
        /\ scopes' = IF top.cls = SessionCls /\ ~scopes[top.obj].kept
                      THEN [scopes EXCEPT ![top.obj] = DeadScope] ELSE scopes
        /\ sessions' = CollectSessions(sessions, scopes')
        /\ handles' = CollectHandles(handles, scopes')
        /\ last' = [last EXCEPT ![t] =
                      IF old.h = 0 THEN old ELSE [old EXCEPT !.via = "restored"]]
        /\ saved' = [saved EXCEPT ![t] = SubSeq(@, 1, Len(@) - 1)]
        /\ sess' = [sess EXCEPT ![t] = 0]
        /\ UNCHANGED <<registry, deps, rootKwargs, assigned>>

\* One thread using descriptors and session overrides.
Main == 1

Next ==
    \/ \E k \in Kinds, r \in RawNames : Access(Main, k, r) /\ UNCHANGED aux
    \/ ResetSession(Main) /\ UNCHANGED aux
    \/ \E k \in Kinds, r \in RawNames : ResetDescriptor(Main, k, r) /\ UNCHANGED aux
    \/ \E k \in Kinds, r \in RawNames, v \in BotoKwargs :
           SetBotoKwargs(Main, k, r, v) /\ UNCHANGED aux
    \/ \E a \in SessionInitArgs : EnterSession(Main, a, FALSE) /\ UNCHANGED aux
    \/ \E how \in {"return", "raise"} : Exit(Main, how) /\ UNCHANGED aux

Spec == Init /\ [][Next]_vars

\* Several threads, each looking handles up and overriding the session.
NextThreads ==
    \E t \in Threads :
        \/ \E k \in Kinds, r \in RawNames : Access(t, k, r) /\ UNCHANGED aux
        \/ ResetSession(t) /\ UNCHANGED aux
        \/ \E a \in SessionInitArgs : EnterSession(t, a, FALSE) /\ UNCHANGED aux
        \/ \E how \in {"return", "raise"} : Exit(t, how) /\ UNCHANGED aux

SpecThreads == Init /\ [][NextThreads]_vars

TypeOK ==
    /\ Len(scopes) <= MaxScopes
    /\ Len(deps) <= MaxDeps
    /\ Len(sessions) <= MaxSessions
    /\ Len(handles) <= MaxHandles
    /\ \A t \in Threads : Len(stack[t]) <= MaxDepth /\ Len(saved[t]) = Len(stack[t])

\* ------------------------------------------- keyword options as dict objects
\* dicts[i] holds the items of the i-th dict object; refs.boto and
\* refs.session are the objects the descriptor's _boto_kwargs and the
\* BotoSession's _session_kwargs refer to, refs.held the objects the calling
\* program holds, refs.v the last assignment (object passed, its items then,
\* the property assigned), refs.got the object the last read returned.
MaxDicts == 5

\* BotoResources.DynamoDB, the descriptor whose boto_kwargs the program uses
KwRaw == <<"d", "_", "b">>
KwCls == <<"resource", normalize(KwRaw)>>

OptionKeys   == {"region_name"}
OptionValues == {"r1", "r5"}
DictLiterals == { {} } \cup { {<<k, x>>} : k \in OptionKeys, x \in OptionValues }

\* The same object handed on, no copy made.
AliasOf(ds, i) == [id |-> i, dicts |-> ds]

\* {**value} and dict.copy(): a new dict object holding the same items
CopyOf(ds, i) == [id |-> Len(ds) + 1, dicts |-> Append(ds, ds[i])]

\* d[k] = x
DictPut(d, k, x) == { p \in d : p[1] # k } \cup { <<k, x>> }

\* d.clear()
DictClear(d) == {}

\* The program builds a dict: v = {...}
NewDict(t, items) ==
    /\ Len(dicts) < MaxDicts
    /\ dicts' = Append(dicts, items)
    /\ refs' = [refs EXCEPT !.held = @ \cup {Len(dicts) + 1}]
    /\ UNCHANGED <<core, lookup>>

\* BotoResources.DynamoDB.grab().boto_kwargs = v
AssignBotoKwargs(t, v) ==
    LET c == CopyOf(dicts, v)
    IN  /\ v \in refs.held
        /\ Len(c.dicts) <= MaxDicts
        /\ SetBotoKwargs(t, KwCls[1], KwRaw, c.dicts[c.id])
        /\ dicts' = c.dicts
        /\ refs' = [refs EXCEPT !.boto = c.id,
                                !.v = [id |-> v, items |-> dicts[v], to |-> "boto"]]
        /\ UNCHANGED lookup

\* got = BotoResources.DynamoDB.grab().boto_kwargs
ReadBotoKwargs(t) ==
    LET c == CopyOf(dicts, refs.boto)
    IN  /\ Len(c.dicts) <= MaxDicts
        /\ dicts' = c.dicts
        /\ refs' = [refs EXCEPT !.held = @ \cup {c.id}, !.got = c.id]
        /\ registry' = Register(KwCls[1], KwRaw)
        /\ UNCHANGED <<deps, rootKwargs, scopes, sessions, handles, stack, last,
                       saved, assigned, sess, lookup>>

\* boto_session.session_kwargs = v
AssignSessionKwargs(t, v) ==
    LET c == CopyOf(dicts, v)
    IN  /\ v \in refs.held
        /\ Len(c.dicts) <= MaxDicts
        /\ SetSessionKwargs(t, c.dicts[c.id])
        /\ dicts' = c.dicts
        /\ refs' = [refs EXCEPT !.session = c.id,
                                !.v = [id |-> v, items |-> dicts[v], to |-> "session"]]
        /\ UNCHANGED lookup

\* got = boto_session.session_kwargs
ReadSessionKwargs(t) ==
    LET c == CopyOf(dicts, refs.session)
    IN  /\ Len(c.dicts) <= MaxDicts
        /\ dicts' = c.dicts
        /\ refs' = [refs EXCEPT !.held = @ \cup {c.id}, !.got = c.id]
        /\ UNCHANGED <<core, lookup>>

\* The program changes a dict it holds.  What the descriptor and the
\* BotoSession hold is read through their references afterwards.
MutateDict(t, i, items) ==
    /\ i \in refs.held
    /\ items # dicts[i]
    /\ dicts' = [dicts EXCEPT ![i] = items]
    /\ rootKwargs' = [rootKwargs EXCEPT ![t][KwCls] = dicts'[refs.boto]]
    /\ scopes' = [scopes EXCEPT ![CurrentSession(t)].kwargs = dicts'[refs.session]]
    /\ refs' = [refs EXCEPT !.got = IF @ = i THEN 0 ELSE @]
    /\ UNCHANGED <<registry, deps, sessions, handles, stack, last, saved, assigned,
                   sess, lookup>>

\* v[k] = x  and  v.clear()
Mutations(d) == { DictPut(d, k, x) : k \in OptionKeys, x \in OptionValues } \cup { DictClear(d) }

NextKwargs ==
    \/ \E items \in DictLiterals : NewDict(Main, items)
    \/ \E v \in 1..MaxDicts : AssignBotoKwargs(Main, v)
    \/ ReadBotoKwargs(Main)
    \/ \E v \in 1..MaxDicts : AssignSessionKwargs(Main, v)
    \/ ReadSessionKwargs(Main)
    \/ \E i \in 1..MaxDicts : i \in refs.held /\ \E items \in Mutations(dicts[i]) :
           MutateDict(Main, i, items)

SpecKwargs == Init /\ [][NextKwargs]_vars

\* ------------------------------------------ session configuration and reset
\* One thread reading boto_session.session, assigning session_kwargs and
\* resetting, in the default BotoSession and inside `with BotoSession(...)`.
SessionKind == "client"

NextSessions ==
    \/ \E r \in RawNames : Access(Main, SessionKind, r) /\ UNCHANGED aux
    \/ ReadSession(Main) /\ UNCHANGED aux
    \/ ResetSession(Main) /\ UNCHANGED aux
    \/ \E v \in SessionKwargs : SetSessionKwargs(Main, v) /\ UNCHANGED aux
    \/ \E a \in SessionInitArgs : EnterSession(Main, a, FALSE) /\ UNCHANGED aux
    \/ \E how \in {"return", "raise"} : Exit(Main, how) /\ UNCHANGED aux

SpecSessions == Init /\ [][NextSessions]_vars

\* ------------------------------------------------------- the handle cache
\* BotoSession.grab()._boto_obj_for_dependency(dep, constructor, force_create)
\* with dep = get_dependency_cls(name).grab() and the constructor of get().
GetOrCreate(t, kind, raw, force_create) ==
    LET cls == <<kind, normalize(raw)>>
        d   == GrabDep(t, cls)
        r   == BotoObjForDependency(t, d, force_create)
    IN  /\ Len(r.sessions) <= MaxSessions
        /\ Len(r.handles) <= MaxHandles
        /\ registry' = Register(kind, raw)
        /\ scopes' = r.scopes
        /\ sessions' = r.sessions
        /\ handles' = CollectHandles(r.handles, r.scopes)
        /\ last' = [last EXCEPT ![t] = [h |-> r.h, via |-> ViaAfter(last[t], r.h)]]
        /\ assigned' = IF assigned = d THEN NoDep ELSE assigned
        /\ UNCHANGED <<deps, rootKwargs, stack, saved, sess>>

\* One thread calling the cache with and without force_create, for a name
\* boto3 knows and one it does not, in the default BotoSession and inside
\* `with BotoSession()`.
NextStore ==
    \/ \E r \in {KwRaw} \cup UnsupportedRaw, f \in BOOLEAN :
           GetOrCreate(Main, SessionKind, r, f) /\ UNCHANGED aux
    \/ EnterSession(Main, [region_name |-> "None"], FALSE) /\ UNCHANGED aux
    \/ \E how \in {"return", "raise"} : Exit(Main, how) /\ UNCHANGED aux

SpecStore == Init /\ [][NextStore]_vars

\* One thread using the client and the resource of one name and resetting
\* them, in the default BotoSession and inside `with BotoSession()`.
NextReset ==
    \/ \E k \in Kinds : Access(Main, k, KwRaw) /\ UNCHANGED aux
    \/ \E k \in Kinds, r \in RawNames : ResetDescriptor(Main, k, r) /\ UNCHANGED aux
    \/ EnterSession(Main, [region_name |-> "None"], FALSE) /\ UNCHANGED aux
    \/ \E how \in {"return", "raise"} : Exit(Main, how) /\ UNCHANGED aux

SpecReset == Init /\ [][NextReset]_vars

\* _boto_obj_for_dependency(dep, constructor, force_create) with a constructor
\* of the caller's that raises: line 137 raises, line 138 is not reached.
GetOrRaise(t, kind, raw, force_create) ==
    LET d     == GrabDep(t, <<kind, normalize(raw)>>)
        entry == StoreGet(scopes[CurrentSession(t)].store, d)
        runs  == ConstructorRuns(t, d, force_create)
    IN  /\ last' = [last EXCEPT ![t] =
                       IF runs = 0 THEN [h |-> entry, via |-> ViaAfter(last[t], entry)]
                       ELSE [h |-> Error, via |-> "direct"]]
        /\ out' = IF runs = 0 THEN NoOut
                  ELSE [NoOut EXCEPT !.op = "raise", !.kind = kind, !.key = raw,
                                     !.res = "error", !.runs = runs]
        /\ registry' = Register(kind, raw)
        /\ UNCHANGED <<deps, rootKwargs, scopes, sessions, handles, stack, saved,
                       assigned, sess, classes, looked, table, pend, attrs, dicts, refs>>

\* One thread filling the cache, with constructors that return and that
\* raise, and resetting, in the default BotoSession and inside
\* `with BotoSession()`.
NextCache ==
    \/ \E r \in {KwRaw} \cup UnsupportedRaw, f \in BOOLEAN :
           /\ GetOrCreate(Main, SessionKind, r, f)
           /\ out' = NoOut
           /\ UNCHANGED <<classes, looked, table, pend, attrs, dicts, refs>>
    \/ \E f \in BOOLEAN : GetOrRaise(Main, SessionKind, KwRaw, f)
    \/ ResetSession(Main) /\ UNCHANGED aux
    \/ EnterSession(Main, [region_name |-> "None"], FALSE) /\ UNCHANGED aux
    \/ \E how \in {"return", "raise"} : Exit(Main, how) /\ UNCHANGED aux

SpecCache == Init /\ [][NextCache]_vars

\* _boto_obj_for_dependency(dep, constructor, force_create) with a constructor
\* of the caller's that returns an object which is false (an empty
\* container, a stub defining __bool__ or __len__) and reads no session.
GetOrCreateFalsy(t, kind, raw, force_create) ==
    LET d     == GrabDep(t, <<kind, normalize(raw)>>)
        s     == CurrentSession(t)
        entry == StoreGet(scopes[s].store, d)
        h     == Len(handles) + 1
    IN  IF ConstructorRuns(t, d, force_create) = 0
        THEN /\ last' = [last EXCEPT ![t] = [h |-> entry, via |-> ViaAfter(last[t], entry)]]
             /\ registry' = Register(kind, raw)
             /\ UNCHANGED <<deps, rootKwargs, scopes, sessions, handles, stack,
                            saved, assigned, sess>>
        ELSE /\ Len(handles) < MaxHandles
             /\ scopes' = [scopes EXCEPT ![s].store = StorePut(@, d, h)]
             /\ handles' = CollectHandles(
                               Append(handles, [kind |-> kind, name |-> normalize(raw),
                                                kwargs |-> {}, session |-> 0,
                                                by |-> t, falsy |-> TRUE]),
                               scopes')
             /\ last' = [last EXCEPT ![t] = [h |-> h, via |-> "direct"]]
             /\ registry' = Register(kind, raw)
             /\ UNCHANGED <<deps, rootKwargs, sessions, stack, saved, assigned, sess>>

\* One thread filling the cache with objects that are true and objects that
\* are false, in the default BotoSession and inside `with BotoSession()`.
NextFalsy ==
    \/ \E f \in BOOLEAN : GetOrCreate(Main, SessionKind, KwRaw, f) /\ UNCHANGED aux
    \/ \E f \in BOOLEAN : GetOrCreateFalsy(Main, SessionKind, KwRaw, f) /\ UNCHANGED aux
    \/ ResetSession(Main) /\ UNCHANGED aux
    \/ EnterSession(Main, [region_name |-> "None"], FALSE) /\ UNCHANGED aux
    \/ \E how \in {"return", "raise"} : Exit(Main, how) /\ UNCHANGED aux

SpecFalsy == Init /\ [][NextFalsy]_vars

\* ---------------------------------------------------- descriptor overrides
\* with BotoResources.DynamoDB(region_name=...):  and
\* with BotoResources.DynamoDB(endpoint_url=...):
OverrideKind == "resource"
OverrideArgs == { [region_name |-> "r3", endpoint_url |-> "None"],
                  [region_name |-> "None", endpoint_url |-> "e1"] }

\* One thread using a resource by name, on its own and inside descriptor
\* overrides with their own options.
NextDescriptors ==
    \/ \E r \in RawNames : Access(Main, OverrideKind, r) /\ UNCHANGED aux
    \/ \E a \in OverrideArgs : EnterDescriptor(Main, OverrideKind, KwRaw, a) /\ UNCHANGED aux
    \/ \E how \in {"return", "raise"} : Exit(Main, how) /\ UNCHANGED aux

SpecDescriptors == Init /\ [][NextDescriptors]_vars

\* ------------------------------------------------- BotoSession as decorator
\* One thread keeping BotoSession objects, with and without
\* reset_session_when_activated, and activating them again and again.  The
\* session is read by the constructor of get() (boto_session.session).
NextActivation ==
    \/ \E r \in RawNames : Access(Main, SessionKind, r) /\ UNCHANGED aux
    \/ \E f \in BOOLEAN : Decorate(Main, [region_name |-> "r1"], f) /\ UNCHANGED aux
    \/ \E s \in 1..MaxScopes : Activate(Main, s) /\ UNCHANGED aux
    \/ \E how \in {"return", "raise"} : Exit(Main, how) /\ UNCHANGED aux

SpecActivation == Init /\ [][NextActivation]_vars

\* ------------------------------------------------------- the class registry
\* classes[i] is the i-th class `type(...)` created, as <<kind, boto name>>;
\* looked is the last lookup: its arguments, the class returned and how:
\* "created", "found", or "alias" when the lookup before it returned this
\* class for another raw name.
MaxClasses == 2

RegChars == {"d", "D", "_", "-"}
RegRawNames ==
    { <<c>> : c \in RegChars } \cup { <<c, e>> : c \in RegChars, e \in RegChars }
        \cup RawNames \cup { <<"D", "_", "B">> }

\* _dependency_classes[boto_kind].get(boto_name), 0 = no entry
ClassGet(cs, kind, name) ==
    IF \E i \in 1..Len(cs) : cs[i] = <<kind, name>>
    THEN CHOOSE i \in 1..Len(cs) : cs[i] = <<kind, name>>
    ELSE 0

\* _dependency_classes[boto_kind].get(boto_name) on the dict itself, 0 = no entry
TableGet(tb, kind, name) ==
    IF \E p \in tb[kind] : p[1] = name
    THEN (CHOOSE p \in tb[kind] : p[1] = name)[2]
    ELSE 0

\* _dependency_classes[boto_kind][boto_name] = dep_cls
TablePut(tb, kind, name, c) ==
    [tb EXCEPT ![kind] = { p \in @ : p[1] # name } \cup { <<name, c>> }]

\* The NUL character, which a type name must not contain.
Nul == "NUL"

\* type(cls_name, (cls,), {}, ...) raises ValueError for such a name
TypeRaises(name) == \E i \in 1..Len(name) : name[i] = Nul

\* __init_subclass__(boto_name, boto_kind): the attributes of the new class
InitSubclass(boto_kind, boto_name) == <<boto_kind, boto_name>>

\* A lookup that refuses names boto3 has no service for.
DependencyClsValidating(tb, cs, kind, raw) ==
    LET name  == normalize(raw)
        found == TableGet(tb, kind, name)
    IN  IF found # 0
        THEN [cls |-> found, table |-> tb, classes |-> cs, err |-> "none"]
        ELSE IF TypeRaises(name) \/ name \in Unsupported
        THEN [cls |-> 0, table |-> tb, classes |-> cs, err |-> "ValueError"]
        ELSE [cls |-> Len(cs) + 1,
              table |-> TablePut(tb, kind, name, Len(cs) + 1),
              classes |-> Append(cs, InitSubclass(kind, name)),
              err |-> "none"]

\* _get_dependency_cls(raw) of the class of kind `kind`, run without
\* interruption on table tb and class list cs: the class returned (0 when
\* type() raised), the table and the classes afterwards.
DependencyCls(tb, cs, kind, raw) ==
    LET name  == normalize(raw)
        found == TableGet(tb, kind, name)
    IN  IF found # 0
        THEN [cls |-> found, table |-> tb, classes |-> cs, err |-> "none"]
        ELSE IF TypeRaises(name)
        THEN [cls |-> 0, table |-> tb, classes |-> cs, err |-> "ValueError"]
        ELSE [cls |-> Len(cs) + 1,
              table |-> TablePut(tb, kind, name, Len(cs) + 1),
              classes |-> Append(cs, InitSubclass(kind, name)),
              err |-> "none"]

\* BotoClient._get_dependency_cls(raw) / BotoResource._get_dependency_cls(raw)
GetDependencyCls(kind, raw) ==
    LET r == DependencyCls(table, classes, kind, raw)
    IN  /\ Len(r.classes) <= MaxClasses
        /\ r.err = "none"
        /\ classes' = r.classes
        /\ table' = r.table
        /\ looked' = [kind |-> kind, raw |-> raw, cls |-> r.cls,
                      how |-> IF Len(r.classes) > Len(classes) THEN "created"
                              ELSE IF looked.cls = r.cls /\ looked.raw # raw THEN "alias"
                              ELSE "found"]
        /\ registry' = Register(kind, raw)
        /\ UNCHANGED <<deps, rootKwargs, scopes, sessions, handles, stack, last,
                       saved, assigned, sess, dicts, refs, pend, out, attrs>>

NextRegistry == \E k \in Kinds, r \in RegRawNames : GetDependencyCls(k, r)

SpecRegistry == Init /\ [][NextRegistry]_vars

\* ------------------------------------------------------------- the facades
\* out is what the last facade-level operation gave its caller: res is
\* "class", "proxy", "handle", "attribute" or "error", val the class or
\* handle, err the type of the exception raised, msg the words of its
\* message that matter, runs how often the handle constructor was invoked.
\* str.isupper() of one character
IsUpper(c) == Lower(c) # c

\* The error message names the key.
Naming(key) == <<"key", key>>

\* key[0] / name[0] of an empty string
IndexError == [res |-> "error", cls |-> 0, err |-> "IndexError",
               msg |-> <<"string index out of range">>]

AttributeError(key) == [res |-> "error", cls |-> 0, err |-> "AttributeError",
                        msg |-> Naming(key)]

\* A facade that knows a fixed catalogue only: names never seen fail.
MetaGetattrOfKnownOnly(tb, cs, kind, key) ==
    IF key = <<>> THEN IndexError @@ [table |-> tb, classes |-> cs]
    ELSE IF ~IsUpper(key[1]) \/ TableGet(tb, kind, normalize(key)) = 0
    THEN AttributeError(key) @@ [table |-> tb, classes |-> cs]
    ELSE [res |-> "class", cls |-> TableGet(tb, kind, normalize(key)),
          err |-> "none", msg |-> <<>>, table |-> tb, classes |-> cs]

\* _LoaderMetaclass.__getattr__(key) on the facade class of kind `kind`
MetaGetattr(tb, cs, kind, key) ==
    IF key = <<>> THEN IndexError @@ [table |-> tb, classes |-> cs]
    ELSE IF ~IsUpper(key[1])
    THEN AttributeError(key) @@ [table |-> tb, classes |-> cs]
    ELSE LET r == DependencyCls(tb, cs, kind, key)
         IN  IF r.err # "none"
             THEN AttributeError(key) @@ [table |-> tb, classes |-> cs]
             ELSE [res |-> "class", cls |-> r.cls, err |-> "none", msg |-> <<>>,
                   table |-> r.table, classes |-> r.classes]

\* Facade.<key> on the class BotoClients / BotoResources
TypeLookup(t, kind, key) ==
    LET m == MetaGetattr(table, classes, kind, key)
    IN  /\ Len(m.classes) <= MaxClasses
        /\ table' = m.table
        /\ classes' = m.classes
        /\ registry' = IF m.res = "class" THEN Register(kind, key) ELSE registry
        /\ out' = [op |-> "type", kind |-> kind, key |-> key, res |-> m.res,
                   val |-> m.cls, err |-> m.err, msg |-> m.msg, runs |-> 0]
        /\ UNCHANGED <<deps, rootKwargs, scopes, sessions, handles, stack, last,
                       saved, assigned, sess, looked, pend, attrs, dicts, refs>>

\* xboto.client.__getattr__(name)
ClientGetattr(name) ==
    IF name = <<>> \/ name[1] = "_" THEN AttributeError(name)
    ELSE IF IsUpper(name[1]) THEN AttributeError(name)
    ELSE [res |-> "proxy", cls |-> 0, err |-> "none", msg |-> <<>>]

\* xboto.resource.__getattr__(name)
ResourceGetattr(name) ==
    IF name # <<>> /\ name[1] = "_" THEN AttributeError(name)
    ELSE IF name = <<>> THEN IndexError
    ELSE IF IsUpper(name[1]) THEN AttributeError(name)
    ELSE [res |-> "proxy", cls |-> 0, err |-> "none", msg |-> <<>>]

\* xboto.client.<name> / xboto.resource.<name>: proxy_attribute(name) hands
\* out a proxy that looks nothing up before it is used.
ModuleGetattr(t, kind, name) ==
    LET m == IF kind = "client" THEN ClientGetattr(name) ELSE ResourceGetattr(name)
    IN  /\ out' = [op |-> "module", kind |-> kind, key |-> name, res |-> m.res,
                   val |-> 0, err |-> m.err, msg |-> m.msg, runs |-> 0]
        /\ UNCHANGED <<core, classes, looked, table, pend, attrs, dicts, refs>>

\* Names the facade object has as ordinary attributes.
RealAttributes == { <<"l", "o", "a", "d">> }

\* super().__getattribute__(item)
SuperGetattribute(item) ==
    IF item \in RealAttributes
    THEN [res |-> "attribute", err |-> "none"]
    ELSE [res |-> "error", err |-> "AttributeError"]

\* What boto3 raises for a service name it does not know.
UnknownServiceError == "UnknownServiceError"

\* A __getattribute__ whose `try` also spans the lookup: what the
\* constructor raises comes out as AttributeError.
GetattributeTranslating(first, second) ==
    IF first.err # "AttributeError" THEN first
    ELSE IF second.err # "none" THEN [second EXCEPT !.err = "AttributeError"]
    ELSE second

\* _Loader.__getattribute__: the `try` spans super().__getattribute__ alone
\* (first); the handler returns what _lookup gave or raised (second).
Getattribute(first, second) ==
    IF first.err # "AttributeError" THEN first ELSE second

\* facade.<item>, also through the proxy of a module attribute:
\*   _Loader.__getattribute__(item), then
\*   _lookup(item) = get_dependency_cls(item).grab().get()
GetAttribute(t, kind, item) ==
    LET first == SuperGetattribute(item)
        c     == DependencyCls(table, classes, kind, item)
        d     == GrabDep(t, <<kind, normalize(item)>>)
    IN  IF first.err = "none"
        THEN /\ out' = [op |-> "get", kind |-> kind, key |-> item,
                        res |-> Getattribute(first, first).res, val |-> 0,
                        err |-> "none", msg |-> <<>>, runs |-> 0]
             /\ UNCHANGED <<core, classes, looked, table, pend, attrs, dicts, refs>>
        ELSE IF c.err # "none"
        THEN /\ out' = [op |-> "get", kind |-> kind, key |-> item,
                        res |-> "error", val |-> 0,
                        err |-> Getattribute(first, c).err, msg |-> <<>>, runs |-> 0]
             /\ UNCHANGED <<core, classes, looked, table, pend, attrs, dicts, refs>>
        ELSE /\ Len(c.classes) <= MaxClasses
             /\ Access(t, kind, item)
             /\ table' = c.table
             /\ classes' = c.classes
             /\ out' = [op |-> "get", kind |-> kind, key |-> item,
                        res |-> IF last'[t].h = Error THEN "error" ELSE "handle",
                        val |-> last'[t].h,
                        err |-> Getattribute(first,
                                   [err |-> IF last'[t].h = Error
                                            THEN UnknownServiceError ELSE "none"]).err,
                        msg |-> <<>>,
                        runs |-> ConstructorRuns(t, d, ForceCreate(KwargsOf(d, deps, rootKwargs)))]
             /\ UNCHANGED <<looked, pend, attrs, dicts, refs>>

\* A load that constructs whatever the cache holds.
LoadForcingCreate(t, kind, module) ==
    LET c == DependencyCls(table, classes, kind, module)
    IN  /\ module \notin RealAttributes
        /\ Len(c.classes) <= MaxClasses
        /\ GetOrCreate(t, kind, module, TRUE)
        /\ table' = c.table
        /\ classes' = c.classes
        /\ out' = [op |-> "get", kind |-> kind, key |-> module,
                   res |-> IF last'[t].h = Error THEN "error" ELSE "handle",
                   val |-> last'[t].h,
                   err |-> IF last'[t].h = Error THEN UnknownServiceError ELSE "none",
                   msg |-> <<>>, runs |-> 1]
        /\ UNCHANGED <<looked, pend, attrs, dicts, refs>>

\* facade.load(module):  return getattr(self, module)
Load(t, kind, module) == GetAttribute(t, kind, module)

\* Keys of type-level lookups: empty, lower case, a known and an unknown
\* service, and one no class can be named after.
TypeKeys == { <<>>, <<"d">>, <<"D", "_", "b">>, <<"X">>, <<"X", Nul>> }

\* Names of module attributes: empty, private, capitalized, known, unknown.
ModuleNames == { <<>>, <<"_", "d">>, <<"D">>, KwRaw, <<"x">> }

\* Names looked up on a facade object, and those only load() can spell.
FacadeNames == { KwRaw } \cup UnsupportedRaw \cup RealAttributes
LoadNames   == FacadeNames \cup { <<"d", "-", "b">> }

\* One thread referring to names through the modules and the facade class,
\* and using some through the facade object.
NextNames ==
    \/ \E k \in Kinds, key \in TypeKeys : TypeLookup(Main, k, key)
    \/ \E k \in Kinds, name \in ModuleNames : ModuleGetattr(Main, k, name)
    \/ \E item \in FacadeNames : GetAttribute(Main, SessionKind, item)

SpecNames == Init /\ [][NextNames]_vars

\* One thread getting handles by attribute and by load(), in the default
\* BotoSession and inside `with BotoSession()`.
NextFacade ==
    \/ \E item \in FacadeNames : GetAttribute(Main, SessionKind, item)
    \/ \E m \in LoadNames : Load(Main, SessionKind, m)
    \/ EnterSession(Main, [region_name |-> "None"], FALSE) /\ UNCHANGED aux
    \/ \E how \in {"return", "raise"} : Exit(Main, how) /\ UNCHANGED aux

SpecFacade == Init /\ [][NextFacade]_vars

\* Names looked up on a facade object: a service, a private name, a
\* capitalized name, and an attribute the object has.
CapitalizedRaw == { <<"D", "_", "b">> }
AttributeNames == { KwRaw } \cup PrivateRaw \cup CapitalizedRaw \cup RealAttributes

\* One thread getting attributes of a facade object, in the default
\* BotoSession and inside `with BotoSession()`, and resetting.
NextAttributes ==
    \/ \E item \in AttributeNames : GetAttribute(Main, SessionKind, item)
    \/ ResetSession(Main) /\ UNCHANGED aux
    \/ EnterSession(Main, [region_name |-> "None"], FALSE) /\ UNCHANGED aux
    \/ \E how \in {"return", "raise"} : Exit(Main, how) /\ UNCHANGED aux

SpecAttributes == Init /\ [][NextAttributes]_vars

\* ------------------------------------------------- several facade objects
\* The instance attribute `item` of facade object f, 0 if it has none.
InstanceAttr(f, item) ==
    IF \E p \in attrs[f] : p[1] = item
    THEN (CHOOSE p \in attrs[f] : p[1] = item)[2]
    ELSE 0

\* A __getattribute__ that does what its docstring says: "Grabs a
\* client/resource and stores it on self, returns it."
FacadeGetattributeStoring(f, t, kind, item) ==
    LET held == InstanceAttr(f, item)
        c    == DependencyCls(table, classes, kind, item)
        d    == GrabDep(t, <<kind, normalize(item)>>)
    IN  IF held # 0
        THEN /\ out' = [op |-> "get", kind |-> kind, key |-> item, res |-> "handle",
                        val |-> held, err |-> "none", msg |-> <<>>, runs |-> 0]
             /\ last' = [last EXCEPT ![t] = [h |-> held, via |-> ViaAfter(last[t], held)]]
             /\ UNCHANGED <<registry, deps, rootKwargs, scopes, sessions, handles,
                            stack, saved, assigned, sess, classes, looked, table,
                            pend, attrs, dicts, refs>>
        ELSE /\ item \notin RealAttributes
             /\ c.err = "none"
             /\ Len(c.classes) <= MaxClasses
             /\ Access(t, kind, item)
             /\ table' = c.table
             /\ classes' = c.classes
             /\ out' = [op |-> "get", kind |-> kind, key |-> item,
                        res |-> IF last'[t].h = Error THEN "error" ELSE "handle",
                        val |-> last'[t].h,
                        err |-> IF last'[t].h = Error THEN UnknownServiceError ELSE "none",
                        msg |-> <<>>,
                        runs |-> ConstructorRuns(t, d, ForceCreate(KwargsOf(d, deps, rootKwargs)))]
             /\ attrs' = IF last'[t].h = Error THEN attrs
                         ELSE [attrs EXCEPT ![f] = @ \cup { <<item, last'[t].h>> }]
             /\ UNCHANGED <<looked, pend, dicts, refs>>

\* f.<item> on facade object f: super().__getattribute__(item) finds what
\* the object has as instance attribute; for anything else _lookup runs.
\* Nothing is ever set on f.
FacadeGetattribute(f, t, kind, item) ==
    LET held == InstanceAttr(f, item)
    IN  IF held # 0
        THEN /\ out' = [op |-> "get", kind |-> kind, key |-> item, res |-> "handle",
                        val |-> held, err |-> "none", msg |-> <<>>, runs |-> 0]
             /\ last' = [last EXCEPT ![t] = [h |-> held, via |-> ViaAfter(last[t], held)]]
             /\ UNCHANGED <<registry, deps, rootKwargs, scopes, sessions, handles,
                            stack, saved, assigned, sess, classes, looked, table,
                            pend, attrs, dicts, refs>>
        ELSE GetAttribute(t, kind, item)

\* One thread getting handles through two facade objects, in the default
\* BotoSession and inside `with BotoSession()`, and resetting.
NextInstances ==
    \/ \E f \in Facades, item \in {KwRaw} \cup UnsupportedRaw :
           FacadeGetattribute(f, Main, SessionKind, item)
    \/ ResetSession(Main) /\ UNCHANGED aux
    \/ EnterSession(Main, [region_name |-> "None"], FALSE) /\ UNCHANGED aux
    \/ \E how \in {"return", "raise"} : Exit(Main, how) /\ UNCHANGED aux

SpecInstances == Init /\ [][NextInstances]_vars

\* ------------------------------------------------ overrides of both kinds
\* One thread using a resource inside and outside of overrides: BotoSession
\* objects made by `with`, kept ones with and without the flag, and
\* descriptor instances.
\* Fewer objects than the other specifications allow.
MaxOverrideScopes == 2
MaxOverrideDeps   == 1

NextOverrides ==
    \/ Access(Main, OverrideKind, KwRaw) /\ UNCHANGED aux
    \/ /\ Len(scopes) < MaxOverrideScopes
       /\ EnterSession(Main, [region_name |-> "None"], FALSE) /\ UNCHANGED aux
    \/ \E f \in BOOLEAN :
           /\ Len(scopes) < MaxOverrideScopes
           /\ Decorate(Main, [region_name |-> "r1"], f) /\ UNCHANGED aux
    \/ \E s \in 1..MaxScopes : Activate(Main, s) /\ UNCHANGED aux
    \/ /\ Len(deps) < MaxOverrideDeps
       /\ EnterDescriptor(Main, OverrideKind, KwRaw,
                          [region_name |-> "r3", endpoint_url |-> "None"]) /\ UNCHANGED aux
    \/ \E how \in {"return", "raise"} : Exit(Main, how) /\ UNCHANGED aux

SpecOverrides == Init /\ [][NextOverrides]_vars

\* ------------------------------------------------ options given to __init__
\* args.pop(key, None)
DictPop(d, key) == { p \in d : p[1] # key }

\* {**a, **b}
DictMerge(a, b) == { p \in a : \A q \in b : q[1] # p[1] } \cup b

\* "True" / "False": a flag as a value among locals()
FlagValue(flag) == IF flag THEN "True" ELSE "False"

\* An __init__ that leaves the flag among the options.
SessionInitKeepingFlag(flag, opts, session_kwargs) ==
    LET locals == [k \in {"self", "reset_session_when_activated", "session_kwargs"}
                          \cup DOMAIN opts |->
                      CASE k = "self" -> "self"
                        [] k = "reset_session_when_activated" -> FlagValue(flag)
                        [] k = "session_kwargs" -> "dict"
                        [] OTHER -> opts[k]]
        args == DictPop(DictPop(StoredArgs(locals), "self"), "session_kwargs")
    IN  DictMerge(args, session_kwargs)

\* BotoSession.__init__: the _session_kwargs it stores.  locals() holds
\* self, the flag, the named options and the dict of the extra keywords.
SessionInit(flag, opts, session_kwargs) ==
    LET locals == [k \in {"self", "reset_session_when_activated", "session_kwargs"}
                          \cup DOMAIN opts |->
                      CASE k = "self" -> "self"
                        [] k = "reset_session_when_activated" -> FlagValue(flag)
                        [] k = "session_kwargs" -> "dict"
                        [] OTHER -> opts[k]]
        args == DictPop(DictPop(DictPop(StoredArgs(locals), "self"),
                                "reset_session_when_activated"), "session_kwargs")
    IN  DictMerge(args, session_kwargs)

\* _BaseBotoClientOrResource.__init__: the _boto_kwargs it stores
BotoInit(opts, boto_kwargs) ==
    LET locals == [k \in {"self", "boto_kwargs"} \cup DOMAIN opts |->
                      CASE k = "self" -> "self"
                        [] k = "boto_kwargs" -> "dict"
                        [] OTHER -> opts[k]]
        args == DictPop(DictPop(StoredArgs(locals), "self"), "boto_kwargs")
    IN  DictMerge(args, boto_kwargs)

\* Named options: left out, and given a value that is false but not None.
InitSessionOpts == { [region_name |-> "None"], [region_name |-> ""] }

\* Extra keywords: none, and one that is None and named like a local.
InitSessionExtras == { {}, { <<"session_kwargs", "None">> } }
InitBotoExtras    == { {}, { <<"boto_kwargs", "None">> } }

\* s = BotoSession(reset_session_when_activated=flag, **opts, **extra)
ConstructSession(t, flag, opts, extra) ==
    /\ Len(scopes) < MaxScopes
    /\ scopes' = Append(scopes, [session |-> 0, kwargs |-> SessionInit(flag, opts, extra),
                    store |-> {}, reset_session_when_activated |-> flag,
                    kept |-> TRUE, users |-> {}])
    /\ UNCHANGED <<registry, deps, rootKwargs, sessions, handles, stack, last,
                   saved, assigned, sess>>

\* d = Facade.<TypeName>(**opts, **extra)
ConstructDescriptor(t, kind, raw, opts, extra) ==
    /\ Len(deps) < MaxDeps
    /\ registry' = Register(kind, raw)
    /\ deps' = Append(deps, [cls |-> <<kind, normalize(raw)>>,
                             kwargs |-> BotoInit(opts, extra)])
    /\ UNCHANGED <<rootKwargs, scopes, sessions, handles, stack, last, saved,
                   assigned, sess>>

\* One thread constructing BotoSession objects and descriptors.
NextConstruct ==
    \/ \E f \in BOOLEAN, o \in InitSessionOpts, x \in InitSessionExtras :
           ConstructSession(Main, f, o, x) /\ UNCHANGED aux
    \/ \E o \in BotoInitArgs, x \in InitBotoExtras :
           ConstructDescriptor(Main, OverrideKind, KwRaw, o, x) /\ UNCHANGED aux

SpecConstruct == Init /\ [][NextConstruct]_vars

\* ------------------------------------------ class lookups by several threads
\* _get_dependency_cls takes no lock: a thread can be suspended between the
\* dict read of line 280 and the store of line 288.
\* Lines 267-281: normalize, read the dict, return the class found.
LookupGet(t, kind, raw) ==
    LET found == TableGet(table, kind, normalize(raw))
    IN  /\ pend[t].stage # "missing"
        /\ pend' = [pend EXCEPT ![t] =
                       [stage |-> IF found # 0 THEN "done" ELSE "missing",
                        kind |-> kind, raw |-> raw, cls |-> found]]
        /\ UNCHANGED <<core, classes, looked, table, out, attrs, dicts, refs>>

\* Lines 284-289: create the class, store it, return it.
LookupStore(t) ==
    LET kind == pend[t].kind
        name == normalize(pend[t].raw)
        c    == Len(classes) + 1
    IN  /\ pend[t].stage = "missing"
        /\ Len(classes) < MaxClasses
        /\ classes' = Append(classes, InitSubclass(kind, name))
        /\ table' = TablePut(table, kind, name, c)
        /\ pend' = [pend EXCEPT ![t].stage = "done", ![t].cls = c]
        /\ registry' = Register(kind, pend[t].raw)
        /\ UNCHANGED <<deps, rootKwargs, scopes, sessions, handles, stack, last,
                       saved, assigned, sess, looked, out, attrs, dicts, refs>>

NextLookups ==
    \E t \in Threads :
        \/ \E k \in Kinds, r \in RawNames : LookupGet(t, k, r)
        \/ LookupStore(t)

SpecLookups == Init /\ [][NextLookups]_vars

\* ------------------------------------------------------------ properties
ClassOfHandle(h) == <<handles[h].kind, handles[h].name>>

\* Thread t holds a handle of class cls from its last access, and nothing
\* that drops cached objects has happened since.
Holds(t, cls, vias) ==
    /\ last[t].h > 0
    /\ last[t].via \in vias
    /\ ClassOfHandle(last[t].h) = cls

\* The access returned the handle held before and constructed nothing.
SameHandleAgain(t) == last'[t].h = last[t].h /\ Len(handles') = Len(handles)

\* The access constructed a new handle and returned it.
NewlyConstructed(t) == Len(handles') = Len(handles) + 1 /\ last'[t].h = Len(handles')

\* C1: two successive accesses facade.n in the same scope, with no override
\* entry/exit, reset_session, descriptor reset or configuration assignment in
\* between, return the identical handle; the constructor does not run again.
C1_SuccessiveAccessSameHandle ==
    [][\A t \in Threads, k \in Kinds, r \in RawNames :
         Holds(t, <<k, normalize(r)>>, {"direct", "again", "back"}) /\ Access(t, k, r)
            => SameHandleAgain(t)]_vars

C1_Witness == \E t \in Threads : last[t].via = "again"

\* C2: with h1 = facade.n obtained in scope S1, facade.n inside an override
\* scope pushed on top of S1 returns a handle other than h1, and after the
\* override exits facade.n returns h1 again, if S1 was not reset in between.
C2_OverrideThenRestore ==
    [][\A t \in Threads, k \in Kinds, r \in RawNames :
         /\ \A i \in 1..Len(saved[t]) :
               (saved[t][i].h > 0 /\ stack[t][i].cls = SessionCls /\ Access(t, k, r))
                   => last'[t].h # saved[t][i].h
         /\ (Holds(t, <<k, normalize(r)>>, {"restored"}) /\ Access(t, k, r))
               => SameHandleAgain(t)]_vars

C2_Witness ==
    \E t \in Threads : last[t].via = "back" /\ Len(handles) >= 2 /\ stack[t] = <<>>

C4_EndpointIsCached ==
    [][\A t \in Threads, k \in Kinds, r \in RawNames :
         (/\ Holds(t, <<k, normalize(r)>>, {"direct", "again", "back", "restored"})
          /\ HasEndpoint(KwargsOf(GrabDep(t, <<k, normalize(r)>>), deps, rootKwargs))
          /\ Access(t, k, r))
            => SameHandleAgain(t)]_vars

C4_Witness ==
    \E t \in Threads :
        /\ last[t].via = "again"
        /\ HasEndpoint(handles[last[t].h].kwargs)

\* C5: a client-kind facade and a resource-kind facade never return the same
\* handle for a name: whatever an access of kind k for name n returns was
\* constructed as a boto object of kind k for n, also when both kinds are
\* looked up through the same scope.
C5_KindsNeverShareHandle ==
    [][\A t \in Threads, k \in Kinds, r \in RawNames :
         (Access(t, k, r) /\ last'[t].h # Error)
            => /\ handles'[last'[t].h].kind = k
               /\ handles'[last'[t].h].name = normalize(r)]_vars

C5_Witness ==
    \E s \in 1..Len(scopes) : \E p, q \in scopes[s].store :
        /\ p[1][2][2] = q[1][2][2]
        /\ p[1][2][1] = "client"
        /\ q[1][2][1] = "resource"

\* C6: a handle is held by the cache of at most one scope, it was constructed
\* from the session of the scope whose cache holds it, and the handle a
\* thread got from its last access belongs to that thread's current scope.
C6_HandleOwnedByOneScope ==
    /\ \A s1, s2 \in 1..Len(scopes) :
          s1 # s2 => { p[2] : p \in scopes[s1].store } \cap
                     { p[2] : p \in scopes[s2].store } = {}
    /\ \A s \in 1..Len(scopes) : \A p \in scopes[s].store :
          sessions[handles[p[2]].session].scope = s
    /\ \A t \in Threads :
          last[t].h > 0 =>
             sessions[handles[last[t].h].session].scope = CurrentSession(t)

C6_Witness ==
    \E s1, s2 \in 1..Len(scopes) :
        s1 # s2 /\ scopes[s1].store # {} /\ scopes[s2].store # {}

\* Thread t has pushed an override scope of its own and it is current.
InOwnOverride(t) ==
    /\ TopOf(stack[t], SessionCls) # 0
    /\ scopes[CurrentSession(t)].users = {t}

\* C7: threads that each pushed their own override scope have independent
\* current-scope pointers and caches: a push or pop by one thread leaves the
\* stack of every other thread alone, and a get() inside a thread's own
\* override returns a handle that this thread constructed.
C7_OverridesIndependentPerThread ==
    [][\A t \in Threads :
         /\ ((\E a \in SessionInitArgs : EnterSession(t, a, FALSE))
                \/ (\E how \in {"return", "raise"} : Exit(t, how)))
               => \A u \in Threads \ {t} : stack'[u] = stack[u]
         /\ \A k \in Kinds, r \in RawNames :
               (InOwnOverride(t) /\ Access(t, k, r) /\ last'[t].h # Error)
                  => /\ handles'[last'[t].h].by = t
                     /\ sessions'[handles'[last'[t].h].session].by = t]_vars

C7_Witness ==
    \E t, u \in Threads :
        /\ t # u
        /\ InOwnOverride(t) /\ last[t].h > 0
        /\ InOwnOverride(u) /\ last[u].h > 0

\* C8 as stated: with no override active, the handle a thread gets was
\* constructed by that thread, from a session no other thread uses.
C8_HandlesAndSessionPerThread ==
    [][\A t \in Threads, k \in Kinds, r \in RawNames :
         (TopOf(stack[t], SessionCls) = 0 /\ Access(t, k, r) /\ last'[t].h # Error)
            => /\ handles'[last'[t].h].by = t
               /\ sessions'[handles'[last'[t].h].session].by = t]_vars

\* C9: leaving an override block, by return or by a raised error, pops
\* exactly the innermost entry of the leaving thread: its current scope is
\* again the scope that was current when the block was entered, its stack
\* depth is one less, and no other thread's stack changes; also when nested.
C9_ExitRestoresPreviousScope ==
    [][\A t \in Threads, how \in {"return", "raise"} :
         (stack[t] # <<>> /\ Exit(t, how))
            => /\ stack'[t] = SubSeq(stack[t], 1, Len(stack[t]) - 1)
               /\ CurrentSession(t)' = stack[t][Len(stack[t])].before
               /\ \A u \in Threads \ {t} : stack'[u] = stack[u]]_vars

C9_Witness ==
    \E t \in Threads :
        /\ Len(stack[t]) = 1
        /\ \E s \in 1..Len(scopes) : s > stack[t][1].obj /\ scopes[s] = DeadScope

\* C10 as stated: after boto_kwargs of a descriptor is assigned, the next
\* get() on that descriptor returns a newly constructed handle, built with
\* the assigned settings.
C10_NextGetAfterAssignRebuilds ==
    [][\A t \in Threads, k \in Kinds, r \in RawNames :
         (assigned = GrabDep(t, <<k, normalize(r)>>) /\ Access(t, k, r)
             /\ last'[t].h # Error)
            => /\ NewlyConstructed(t)
               /\ handles'[last'[t].h].kwargs =
                     KwargsOf(assigned, deps, rootKwargs)]_vars

\* C11: after descriptor.boto_kwargs = v the stored options equal v but are
\* another object than v; a read returns an object equal to the stored options
\* that is neither the stored object nor v; changing v, or any object a read
\* returned, never changes the stored options.  The same for
\* BotoSession.session_kwargs.
C11_KwargsRoundTripDefensiveCopies ==
    [][\A t \in {Main} :
         /\ \A v \in refs.held :
               AssignBotoKwargs(t, v) =>
                   /\ refs'.boto # v
                   /\ dicts'[refs'.boto] = dicts[v]
                   /\ rootKwargs'[t][KwCls] = dicts[v]
         /\ \A v \in refs.held :
               AssignSessionKwargs(t, v) =>
                   /\ refs'.session # v
                   /\ dicts'[refs'.session] = dicts[v]
                   /\ scopes'[CurrentSession(t)].kwargs = dicts[v]
         /\ ReadBotoKwargs(t) =>
               /\ refs'.got \notin {refs.boto, refs.v.id}
               /\ dicts'[refs'.got] = rootKwargs[t][KwCls]
               /\ refs.v.to = "boto" => dicts'[refs'.got] = refs.v.items
         /\ ReadSessionKwargs(t) =>
               /\ refs'.got \notin {refs.session, refs.v.id}
               /\ dicts'[refs'.got] = scopes[CurrentSession(t)].kwargs
               /\ refs.v.to = "session" => dicts'[refs'.got] = refs.v.items
         /\ \A i \in refs.held : \A items \in Mutations(dicts[i]) :
               MutateDict(t, i, items) =>
                   /\ rootKwargs' = rootKwargs
                   /\ scopes' = scopes
                   /\ dicts'[refs.boto] = dicts[refs.boto]
                   /\ dicts'[refs.session] = dicts[refs.session]]_vars

\* The program assigned v, changed v afterwards, and a later read returned
\* the options as assigned.
C11_Witness ==
    /\ refs.v.to = "boto"
    /\ refs.got # 0
    /\ dicts[refs.v.id] # refs.v.items
    /\ dicts[refs.got] = refs.v.items
    /\ refs.v.items # {}

\* Every built session of a scope was built from the scope's session_kwargs,
\* and every cached handle of the scope from the scope's session.
BuiltFromConfiguration(scs, ss, hs) ==
    \A s \in 1..Len(scs) :
        /\ scs[s].session # 0 => ss[scs[s].session].kwargs = scs[s].kwargs
        /\ \A p \in scs[s].store : hs[p[2]].session = scs[s].session

\* C12: boto_session.session_kwargs = v resets the scope: right afterwards its
\* cache is empty, its session unbuilt and its configuration v; and in every
\* state a scope's session is one built from the scope's configuration and
\* its cached handles are built from that session, so none outlives the
\* configuration that produced it.
C12_AssignSessionKwargsResets ==
    [][/\ \A v \in SessionKwargs :
             SetSessionKwargs(Main, v) =>
                 /\ scopes'[CurrentSession(Main)].store = {}
                 /\ scopes'[CurrentSession(Main)].session = 0
                 /\ scopes'[CurrentSession(Main)].kwargs = v
       /\ BuiltFromConfiguration(scopes', sessions', handles')]_vars

\* The default BotoSession got other options assigned and a handle was built
\* from a session with these options.
C12_Witness ==
    /\ scopes[RootScope].kwargs # {}
    /\ scopes[RootScope].store # {}
    /\ sessions[scopes[RootScope].session].kwargs = scopes[RootScope].kwargs

\* C13: reset_session() drops the session and the whole handle cache of the
\* scope and keeps the scope object and its configuration; in a scope left
\* that way the next read of `session` constructs a new session object and
\* the next get() constructs a new handle, different from all earlier ones.
C13_ResetSessionDropsSessionAndCache ==
    [][/\ ResetSession(Main) =>
             /\ Len(scopes') = Len(scopes)
             /\ scopes'[CurrentSession(Main)] =
                    [scopes[CurrentSession(Main)] EXCEPT !.session = 0, !.store = {}]
             /\ CurrentSession(Main)' = CurrentSession(Main)
       /\ (scopes[CurrentSession(Main)].session = 0 /\ ReadSession(Main)) =>
             /\ Len(sessions') = Len(sessions) + 1
             /\ sess'[Main] = Len(sessions')
             /\ scopes'[CurrentSession(Main)].session = sess'[Main]
       /\ \A r \in RawNames :
             (scopes[CurrentSession(Main)].store = {} /\ Access(Main, SessionKind, r)) =>
                 /\ NewlyConstructed(Main)
                 /\ \A s \in 1..Len(scopes) : \A p \in scopes[s].store :
                        last'[Main].h # p[2]]_vars

\* The default BotoSession was reset after it had built a session, and a
\* later read built the second session object.
C13_Witness ==
    /\ stack[Main] = <<>>
    /\ Len(sessions) >= 2
    /\ sessions[1] = DeadSession
    /\ sess[Main] = scopes[RootScope].session
    /\ sess[Main] = 2

\* C15: a scope's session is built lazily and once: a new BotoSession has no
\* session, the session constructor runs only for a scope without a session
\* and then once, a read in a scope with a session returns that object, reads
\* with no reset in between return the identical object, and a scope loses
\* its session only through reset_session (directly or via session_kwargs).
C15_SessionBuiltOncePerScope ==
    [][/\ (Len(scopes') > Len(scopes)) => scopes'[Len(scopes')].session = 0
       /\ (Len(sessions') > Len(sessions)) =>
             /\ Len(sessions') = Len(sessions) + 1
             /\ scopes[CurrentSession(Main)].session = 0
             /\ scopes'[CurrentSession(Main)].session = Len(sessions')
       /\ (scopes[CurrentSession(Main)].session # 0 /\ ReadSession(Main)) =>
             /\ sess'[Main] = scopes[CurrentSession(Main)].session
             /\ sessions' = sessions
             /\ scopes' = scopes
       /\ (sess[Main] # 0 /\ ReadSession(Main)) => sess'[Main] = sess[Main]
       /\ \A s \in 1..Len(scopes) :
             (scopes[s].session # 0 /\ scopes'[s].session # scopes[s].session) =>
                 \/ s = CurrentSession(Main) /\ ResetSession(Main)
                 \/ s = CurrentSession(Main) /\ \E v \in SessionKwargs : SetSessionKwargs(Main, v)
                 \/ scopes'[s] = DeadScope /\ \E how \in {"return", "raise"} : Exit(Main, how)]_vars

\* Two reads in a row returned the one session of an override scope, after
\* the default scope had built its own.
C15_Witness ==
    /\ stack[Main] # <<>>
    /\ scopes[RootScope].session # 0
    /\ sess[Main] = scopes[CurrentSession(Main)].session
    /\ sess[Main] # 0
    /\ last[Main].h > 0

\* C19: while a BotoSession built with options K is current,
\* boto_session.session is a session of that scope built with K, and a handle
\* a facade access returns was constructed from that session, not from the
\* session of any enclosing scope.
C19_OverrideSessionUsedForHandles ==
    [][/\ ReadSession(Main) =>
             /\ sessions'[sess'[Main]].kwargs = scopes[CurrentSession(Main)].kwargs
             /\ sessions'[sess'[Main]].scope = CurrentSession(Main)
       /\ \A r \in RawNames :
             Access(Main, SessionKind, r) =>
                 /\ handles'[last'[Main].h].session = scopes'[CurrentSession(Main)].session
                 /\ sessions'[handles'[last'[Main].h].session].kwargs
                        = scopes[CurrentSession(Main)].kwargs
                 /\ \A i \in 1..Len(stack[Main]) :
                        handles'[last'[Main].h].session
                            # scopes'[stack[Main][i].before].session]_vars

\* Inside `with BotoSession(region_name=...)`, with the default scope's
\* session built, a handle was returned and the session read.
C19_Witness ==
    /\ stack[Main] # <<>>
    /\ scopes[CurrentSession(Main)].kwargs # {}
    /\ scopes[RootScope].session # 0
    /\ last[Main].h > 0
    /\ sess[Main] # 0

\* C14: reset() of a descriptor removes the cache entry of that descriptor in
\* the current scope and nothing else: the scope's session and configuration,
\* the entries of all other descriptors, all other scopes and the session
\* objects are unchanged; with no entry for the descriptor nothing changes
\* at all.
C14_ResetDescriptorRemovesOneEntry ==
    [][\A k \in Kinds, r \in RawNames :
         ResetDescriptor(Main, k, r) =>
             /\ Len(scopes') = Len(scopes)
             /\ \A s \in 1..Len(scopes) :
                    /\ scopes'[s].session = scopes[s].session
                    /\ scopes'[s].kwargs = scopes[s].kwargs
                    /\ scopes'[s].store =
                          IF s = CurrentSession(Main)
                          THEN { p \in scopes[s].store :
                                     p[1] # GrabDep(Main, <<k, normalize(r)>>) }
                          ELSE scopes[s].store
             /\ sessions' = sessions
             /\ \A s \in 1..Len(scopes) : \A p \in scopes'[s].store :
                    handles'[p[2]] = handles[p[2]]
             /\ (\A p \in scopes[CurrentSession(Main)].store :
                     p[1] # GrabDep(Main, <<k, normalize(r)>>))
                    => (scopes' = scopes /\ handles' = handles)]_vars

\* A reset removed the client entry and left the resource entry and the
\* session in place.
C14_Witness ==
    /\ scopes[RootScope].session # 0
    /\ Cardinality(scopes[RootScope].store) = 1
    /\ Len(handles) = 2
    /\ \E h \in 1..2 : handles[h] = DeadHandle
    /\ stack[Main] = <<>>

OverrideInForce(t, cls) ==
    LET idx == { i \in 1..Len(stack[t]) : stack[t][i].cls = cls }
    IN  IF idx = {} THEN 0 ELSE stack[t][CHOOSE i \in idx : \A j \in idx : j <= i].obj

OptionsInForce(t, cls) ==
    IF OverrideInForce(t, cls) = 0 THEN rootKwargs[t][cls]
    ELSE deps[OverrideInForce(t, cls)].kwargs

\* C18: the handle a facade access returns was built with the options in
\* force: those of the innermost active `with Facade.Name(**K)` override,
\* and with none active (again) those of the enclosing descriptor; it is the
\* cache entry of that descriptor instance alone, so a later override never
\* gets the handle of an earlier one.
C18_OverrideSettingsDecideHandle ==
    [][\A r \in RawNames :
         Access(Main, OverrideKind, r) =>
             LET cls == <<OverrideKind, normalize(r)>>
                 h   == last'[Main].h
                 o   == OverrideInForce(Main, cls)
             IN  /\ h > 0
                 /\ handles'[h].kwargs = OptionsInForce(Main, cls)
                 /\ \A s \in 1..Len(scopes') : \A p \in scopes'[s].store :
                        p[2] = h => p[1] = (IF o = 0 THEN <<Main, cls, 0>>
                                            ELSE <<0, cls, o>>)]_vars

\* Inside the second override, whose options differ from the first one's,
\* the handle returned was built with the second's options while the first
\* override's handle is still cached.
C18_Witness ==
    /\ Len(deps) = 2
    /\ deps[1].kwargs # deps[2].kwargs
    /\ Len(stack[Main]) = 1
    /\ stack[Main][1].obj = 2
    /\ last[Main].h > 0
    /\ handles[last[Main].h].kwargs = deps[2].kwargs
    /\ \E p \in scopes[RootScope].store : p[1][3] = 1 /\ p[2] # last[Main].h

\* C17: activating a BotoSession made with reset_session_when_activated=True
\* resets it, every time: its session and cache are empty then, so that the
\* first get() after the activation, whose constructor is the first to read
\* `session`, builds a new session and a new handle from it.  Activating one made without the flag, and
\* leaving either, changes nothing of its session and cache.
C17_ResetOnActivation ==
    [][/\ \A s \in 1..Len(scopes) :
             Activate(Main, s) =>
                 IF scopes[s].reset_session_when_activated
                 THEN scopes'[s].session = 0 /\ scopes'[s].store = {}
                 ELSE /\ scopes'[s].session = scopes[s].session
                      /\ scopes'[s].store = scopes[s].store
       /\ (\E how \in {"return", "raise"} : Exit(Main, how)) =>
             \A s \in 1..Len(scopes) :
                 scopes[s].kept =>
                     /\ scopes'[s].session = scopes[s].session
                     /\ scopes'[s].store = scopes[s].store
       /\ \A r \in RawNames :
             ( /\ scopes[CurrentSession(Main)].reset_session_when_activated
               /\ scopes[CurrentSession(Main)].store = {}
               /\ Access(Main, SessionKind, r) ) =>
                 /\ NewlyConstructed(Main)
                 /\ handles'[last'[Main].h].session = scopes'[CurrentSession(Main)].session
                 /\ scopes[CurrentSession(Main)].session = 0 =>
                        /\ Len(sessions') = Len(sessions) + 1
                        /\ scopes'[CurrentSession(Main)].session = Len(sessions')]_vars

\* A BotoSession with the flag, active for the second time, has built its
\* second handle; the one of its first activation is gone.
C17_Witness ==
    /\ Len(scopes) = 2
    /\ scopes[2].reset_session_when_activated
    /\ Len(stack[Main]) = 1
    /\ stack[Main][1].obj = 2
    /\ Len(handles) = 2
    /\ handles[1] = DeadHandle
    /\ last[Main].h = 2

\* The name as the specification normalizes it, character by character:
\* every "_" becomes "-", every letter its lower case, and one "-" at the
\* end is dropped.
CanonChar(c) ==
    IF c = "_" THEN "-"
    ELSE IF c = "D" THEN "d"
    ELSE IF c = "B" THEN "b"
    ELSE c

RECURSIVE CanonChars(_)
CanonChars(s) ==
    IF s = <<>> THEN <<>> ELSE <<CanonChar(Head(s))>> \o CanonChars(Tail(s))

Canon(raw) ==
    LET s == CanonChars(raw)
    IN  IF s # <<>> /\ s[Len(s)] = "-" THEN SubSeq(s, 1, Len(s) - 1) ELSE s

\* C20: for a kind k the registry returns the identical class for raw names
\* a and b whenever they normalize to the same name ("_" to "-", lower case,
\* one trailing "-" dropped): a lookup returns the class of (k, normalized
\* name), there is never more than one class per kind and name, a class
\* once created stays, and a lookup right after one of an equivalent name
\* returns the same class.
C20_EquivalentNamesSameDescriptor ==
    [][\A k \in Kinds, b \in RegRawNames :
         (looked'.kind = k /\ looked'.raw = b /\ GetDependencyCls(k, b)) =>
             /\ looked'.cls \in 1..Len(classes')
             /\ classes'[looked'.cls] = <<k, Canon(b)>>
             /\ \A i \in 1..Len(classes) : classes'[i] = classes[i]
             /\ \A i, j \in 1..Len(classes') : classes'[i] = classes'[j] => i = j
             /\ (looked.kind = k /\ Canon(looked.raw) = Canon(b))
                    => looked'.cls = looked.cls]_vars

\* D_B got the class that the lookup before it got for another spelling.
C20_Witness ==
    /\ looked.raw = <<"D", "_", "B">>
    /\ looked.how = "alias"
    /\ classes[looked.cls] = <<looked.kind, <<"d", "-", "b">>>>

\* C21: one descriptor per (kind, normalized name), also under concurrency:
\* threads that looked the same kind and name up hold the same class, the
\* registry returns that class to every later lookup, and no two classes
\* have the same kind and name.
C21_OneDescriptorUnderConcurrency ==
    /\ \A t, u \in Threads :
          ( /\ pend[t].stage = "done" /\ pend[u].stage = "done"
            /\ pend[t].kind = pend[u].kind
            /\ normalize(pend[t].raw) = normalize(pend[u].raw) )
              => pend[t].cls = pend[u].cls
    /\ \A t \in Threads :
          pend[t].stage = "done"
              => TableGet(table, pend[t].kind, normalize(pend[t].raw)) = pend[t].cls
    /\ \A i, j \in 1..Len(classes) : classes[i] = classes[j] => i = j

\* C22: Facade.<TypeName>, TypeName an identifier whose first character is
\* upper-case, returns the descriptor class of (facade kind,
\* normalize(TypeName)), the one the registry holds for that key: a class
\* registered before is returned as it is, a name never seen gets a new class
\* registered; no handle or session is constructed and no cache changes.
C22_TypeLookupReturnsDescriptor ==
    [][\A k \in Kinds, key \in TypeKeys :
         ( /\ out'.op = "type" /\ out'.kind = k /\ out'.key = key
           /\ key # <<>> /\ IsUpper(key[1]) /\ ~TypeRaises(key)
           /\ TypeLookup(Main, k, key) ) =>
             LET before == TableGet(table, k, normalize(key))
             IN  /\ out'.res = "class"
                 /\ out'.val \in 1..Len(classes')
                 /\ classes'[out'.val] = <<k, normalize(key)>>
                 /\ TableGet(table', k, normalize(key)) = out'.val
                 /\ before # 0 => (out'.val = before /\ classes' = classes)
                 /\ before = 0 => (out'.val = Len(classes) + 1
                                    /\ Len(classes') = Len(classes) + 1)
                 /\ handles' = handles
                 /\ sessions' = sessions
                 /\ scopes' = scopes]_vars

\* BotoClients.X, the first reference to a name boto3 does not know, returned
\* a new class; nothing has been constructed.
C22_Witness ==
    /\ out.op = "type" /\ out.key = <<"X">> /\ out.res = "class"
    /\ classes = << <<SessionKind, <<"x">>>> >>
    /\ out.val = 1
    /\ last[Main] = NoLast
    /\ handles = <<>> /\ sessions = <<>>

\* C23: a type-level lookup that cannot be resolved, because the key does not
\* start with an upper-case character or because the lookup fails, raises
\* AttributeError with a message naming the key and leaves the registry and
\* all caches unchanged.
C23_UnresolvedTypeLookupRaisesAttributeError ==
    [][\A k \in Kinds, key \in TypeKeys :
         ( /\ out'.op = "type" /\ out'.kind = k /\ out'.key = key
           /\ (key = <<>> \/ ~IsUpper(key[1]) \/ TypeRaises(normalize(key)))
           /\ TypeLookup(Main, k, key) ) =>
             /\ out'.res = "error"
             /\ out'.err = "AttributeError"
             /\ out'.msg = Naming(key)
             /\ table' = table /\ classes' = classes /\ registry' = registry
             /\ scopes' = scopes /\ sessions' = sessions /\ handles' = handles]_vars

\* C24: xboto.client.<name> and xboto.resource.<name>: an empty name and a
\* name starting with "_" or an upper-case character raise AttributeError;
\* every other name gives a lazy proxy, and no handle, session or cache entry
\* is made at that time.
C24_ModuleAttributeAccess ==
    [][\A k \in Kinds, name \in ModuleNames :
         ( /\ out'.op = "module" /\ out'.kind = k /\ out'.key = name
           /\ ModuleGetattr(Main, k, name) ) =>
             IF name = <<>> \/ name[1] = "_" \/ IsUpper(name[1])
             THEN out'.res = "error" /\ out'.err = "AttributeError"
             ELSE /\ out'.res = "proxy"
                  /\ scopes' = scopes /\ sessions' = sessions /\ handles' = handles
                  /\ table' = table /\ classes' = classes]_vars

\* The name as an attribute spells it: "_" where the string has "-".
Ident(m) == [i \in 1..Len(m) |-> IF m[i] = "-" THEN "_" ELSE m[i]]

\* C25: facade.load(name) does what attribute access does in the same state,
\* for the name itself and for its spelling as an identifier ("_" for "-"):
\* it returns the handle the attribute would return (or fails as it would),
\* and leaves the registry, the sessions and the caches as the attribute
\* access would leave them.
C25_LoadEquivalentToAttribute ==
    [][\A m \in LoadNames :
         (out'.key = m /\ Load(Main, SessionKind, m)) =>
             \A x \in {m, Ident(m)} :
                 LET d == GrabDep(Main, <<SessionKind, normalize(x)>>)
                     a == BotoObjForDependency(Main, d, FALSE)
                     c == DependencyCls(table, classes, SessionKind, x)
                 IN  IF x \in RealAttributes
                     THEN /\ out'.res = "attribute"
                          /\ UNCHANGED <<core, classes, table>>
                     ELSE /\ out'.val = a.h
                          /\ last'[Main].h = a.h
                          /\ out'.res = (IF a.h = Error THEN "error" ELSE "handle")
                          /\ scopes' = a.scopes
                          /\ sessions' = a.sessions
                          /\ handles' = CollectHandles(a.handles, a.scopes)
                          /\ table' = c.table
                          /\ classes' = c.classes
                          /\ registry' = Register(SessionKind, x)]_vars

\* load('d-b') inside `with BotoSession()` returned the handle cached there,
\* not the one of the default scope, and constructed nothing.
C25_Witness ==
    /\ out.key = <<"d", "-", "b">>
    /\ out.res = "handle"
    /\ out.runs = 0
    /\ stack[Main] # <<>>
    /\ scopes[RootScope].store # {}
    /\ <<GrabDep(Main, <<SessionKind, <<"d", "-", "b">>>>), out.val>>
           \in scopes[CurrentSession(Main)].store

\* C26: a name boto3 has no service for fails nowhere before the handle
\* constructor runs: the module attribute gives a proxy, the type-level
\* lookup gives (and registers) its class, the facade lookup registers the
\* class as well; the error is raised by the constructor, invoked by the
\* get() of the first real use, and nothing else raises that error.
C26_UnsupportedNameFailsAtFirstUse ==
    [][/\ \A k \in Kinds, name \in ModuleNames :
             ( /\ out'.op = "module" /\ out'.kind = k /\ out'.key = name
               /\ normalize(name) \in Unsupported
               /\ ModuleGetattr(Main, k, name) ) =>
                 out'.res = "proxy" /\ out'.err = "none"
       /\ \A k \in Kinds, key \in TypeKeys :
             ( /\ out'.op = "type" /\ out'.kind = k /\ out'.key = key
               /\ normalize(key) \in Unsupported
               /\ TypeLookup(Main, k, key) ) =>
                 /\ out'.res = "class" /\ out'.err = "none"
                 /\ classes'[out'.val] = <<k, normalize(key)>>
       /\ \A item \in FacadeNames :
             ( /\ out'.op = "get" /\ out'.key = item
               /\ normalize(item) \in Unsupported
               /\ GetAttribute(Main, SessionKind, item) ) =>
                 /\ TableGet(table', SessionKind, normalize(item)) # 0
                 /\ out'.res = "error"
                 /\ out'.err = UnknownServiceError
                 /\ out'.runs = 1
       /\ (out' # out /\ out'.err = UnknownServiceError) =>
             (out'.op = "get" /\ out'.runs = 1)]_vars

\* The class of the unknown name x got registered by a type-level lookup, and
\* the first use through the facade object then failed in the constructor.
C26_Witness ==
    /\ out.op = "get" /\ out.key = <<"x">>
    /\ out.err = UnknownServiceError /\ out.runs = 1
    /\ TableGet(table, "resource", <<"x">>) # 0
    /\ TableGet(table, SessionKind, <<"x">>) > TableGet(table, "resource", <<"x">>)

\* C27: a cache entry comes into being only through a get() that completed:
\* an entry a step adds is in the current scope, for the descriptor asked
\* for, and holds the object the constructor just returned, which the caller
\* got (a reset, or any other step, adds none); a call whose constructor
\* raises leaves every cache as it was, whether or not the descriptor had an
\* entry, and no entry ever holds anything but a constructed object of its
\* descriptor.
C27_EntryOnlyAfterSuccessfulGet ==
    [][/\ \A s \in 1..Len(scopes') : \A p \in scopes'[s].store :
             (s > Len(scopes) \/ p \notin scopes[s].store) =>
                 /\ s = CurrentSession(Main)
                 /\ s <= Len(scopes)
                 /\ p[2] = Len(handles) + 1
                 /\ Len(handles') = Len(handles) + 1
                 /\ last'[Main].h = p[2]
                 /\ \E r \in {KwRaw} \cup UnsupportedRaw, f \in BOOLEAN :
                        /\ p[1] = GrabDep(Main, <<SessionKind, normalize(r)>>)
                        /\ GetOrCreate(Main, SessionKind, r, f)
       /\ \A s \in 1..Len(scopes') : \A p \in scopes'[s].store :
             /\ p[2] \in 1..Len(handles')
             /\ <<handles'[p[2]].kind, handles'[p[2]].name>> = p[1][2]
       /\ \A r \in {KwRaw} \cup UnsupportedRaw, f \in BOOLEAN :
             (last'[Main].h = Error /\ GetOrCreate(Main, SessionKind, r, f)) =>
                 /\ \A s \in 1..Len(scopes) : scopes'[s].store = scopes[s].store
                 /\ handles' = handles
       /\ \A f \in BOOLEAN :
             GetOrRaise(Main, SessionKind, KwRaw, f) =>
                 /\ \A s \in 1..Len(scopes) : scopes'[s].store = scopes[s].store
                 /\ handles' = handles
                 /\ last'[Main].h = Error
                        <=> (f \/ StoreGet(scopes[CurrentSession(Main)].store,
                                           GrabDep(Main, <<SessionKind, normalize(KwRaw)>>)) = 0)]_vars

\* A forced call whose constructor raised left the entry of the descriptor
\* in place.
C27_Witness ==
    /\ out.op = "raise" /\ out.runs = 1
    /\ last[Main].h = Error
    /\ StoreGet(scopes[CurrentSession(Main)].store,
                GrabDep(Main, <<out.kind, normalize(out.key)>>)) > 0

\* C28: when the handle constructor raises during facade.<name>, load(name)
\* or get(), the caller gets that error: the same exception type, after one
\* invocation of the constructor, nothing returned in its place; and when it
\* does not raise, no error is reported.
C28_ConstructorErrorPropagates ==
    [][\A item \in LoadNames :
         ( /\ out'.op = "get" /\ out'.key = item
           /\ item \notin RealAttributes
           /\ (GetAttribute(Main, SessionKind, item) \/ Load(Main, SessionKind, item)) ) =>
             LET d == GrabDep(Main, <<SessionKind, normalize(item)>>)
                 r == BotoObjForDependency(Main, d, FALSE)
             IN  IF r.h = Error
                 THEN /\ out'.res = "error"
                      /\ out'.err = UnknownServiceError
                      /\ out'.runs = 1
                      /\ out'.val = Error
                      /\ last'[Main].h = Error
                 ELSE /\ out'.res = "handle"
                      /\ out'.err = "none"
                      /\ out'.val = r.h]_vars

\* Inside `with BotoSession()`, with a handle of another name cached there,
\* the lookup of x raised what the constructor raised.
C28_Witness ==
    /\ out.op = "get" /\ out.key = <<"x">>
    /\ out.res = "error" /\ out.err = UnknownServiceError /\ out.runs = 1
    /\ stack[Main] # <<>>
    /\ scopes[CurrentSession(Main)].store # {}
    /\ last[Main].h = Error

\* The characters that separate the words of a name.
Separators == {"_", "-"}

\* C29 as stated: every name the registry holds, for every raw input,
\* contains no "_" and no upper-case character and does not end with "-",
\* and every key (kind, name) maps to a class whose own kind and name are
\* that key.
C29_NamesFullyNormalized ==
    \A k \in Kinds : \A p \in table[k] :
        /\ \A i \in 1..Len(p[1]) : p[1][i] # "_" /\ ~IsUpper(p[1][i])
        /\ p[1] = <<>> \/ p[1][Len(p[1])] # "-"
        /\ classes[p[2]] = <<k, p[1]>>

\* C29 amended: every name the registry holds contains no "_" and no
\* upper-case character, and is the raw name with one trailing separator
\* removed if it had one: it ends with "-" only for a raw name that ended
\* with two or more separators; and every key (kind, name) maps to a class
\* whose own kind and name are that key.
C29_NamesNormalizedOneSeparatorStripped ==
    [][\A k \in Kinds, b \in RegRawNames :
         (looked'.kind = k /\ looked'.raw = b /\ GetDependencyCls(k, b)) =>
             LET n == classes'[looked'.cls][2]
             IN  /\ \A i \in 1..Len(n) : n[i] # "_" /\ ~IsUpper(n[i])
                 /\ Len(n) = IF b # <<>> /\ b[Len(b)] \in Separators
                              THEN Len(b) - 1 ELSE Len(b)
                 /\ (n # <<>> /\ n[Len(n)] = "-") =>
                        /\ Len(b) >= 2
                        /\ b[Len(b)] \in Separators
                        /\ b[Len(b) - 1] \in Separators
                 /\ TableGet(table', k, n) = looked'.cls
                 /\ \A kk \in Kinds : \A p \in table'[kk] :
                        classes'[p[2]] = <<kk, p[1]>>]_vars

\* The lookup of D_ registered the class named d, and the one of __ before it
\* the class named "-".
C29_Witness ==
    /\ looked.raw = <<"D", "_">>
    /\ classes[looked.cls] = <<looked.kind, <<"d">>>>
    /\ looked.how = "created"
    /\ TableGet(table, looked.kind, <<"-">>) # 0

\* C30: the registry only grows: every (kind, name) bound to a class stays
\* bound to that same class in the next state, whatever operation is taken;
\* no step removes an entry or binds its key to another class.
C30_RegistryMonotonic ==
    [][\A k \in Kinds : \A p \in table[k] : p \in table'[k]]_vars

\* C31: getting a missing attribute of a facade object whose name starts
\* with "_" or with an upper-case character registers no descriptor, invokes
\* no handle constructor and returns no handle.
C31_ReservedNamesResolveNothing ==
    [][\A item \in AttributeNames \ RealAttributes :
         ( /\ item[1] = "_" \/ IsUpper(item[1])
           /\ out'.key = item /\ out'.op = "get"
           /\ GetAttribute(Main, SessionKind, item) )
             => /\ table' = table
                /\ classes' = classes
                /\ out'.runs = 0
                /\ out'.res # "handle"]_vars

\* The dict kw holds exactly the named options of opts that are not None and
\* the extra keywords, each with the value given.
ExactlySupplied(kw, opts, extra) ==
    /\ \A k \in DOMAIN opts :
          IF opts[k] # "None" THEN <<k, opts[k]>> \in kw
          ELSE \A p \in kw : p[1] # k
    /\ extra \subseteq kw
    /\ \A p \in kw : p \in extra \/ (p[1] \in DOMAIN opts /\ opts[p[1]] = p[2])

\* C32: a BotoSession and a descriptor store exactly the options supplied:
\* every named option that is not None and every extra keyword, verbatim;
\* a named option left None is absent; reset_session_when_activated is not
\* among the session options (it is kept as the object's flag).
C32_StoredOptionsAreThoseSupplied ==
    [][/\ \A f \in BOOLEAN, o \in InitSessionOpts, x \in InitSessionExtras :
            (Len(scopes') > Len(scopes) /\ ConstructSession(Main, f, o, x)) =>
                LET s == scopes'[Len(scopes')]
                IN  /\ ExactlySupplied(s.kwargs, o, x)
                    /\ \A p \in s.kwargs : p[1] # "reset_session_when_activated"
                    /\ s.reset_session_when_activated = f
       /\ \A o \in BotoInitArgs, x \in InitBotoExtras :
            (Len(deps') > Len(deps)
                /\ ConstructDescriptor(Main, OverrideKind, KwRaw, o, x)) =>
                ExactlySupplied(deps'[Len(deps')].kwargs, o, x)]_vars

\* A BotoSession constructed with region_name='' and an extra keyword that
\* is None, and a descriptor constructed with endpoint_url and such a keyword.
C32_Witness ==
    /\ \E s \in 2..Len(scopes) :
          /\ scopes[s].kwargs = { <<"region_name", "">>, <<"session_kwargs", "None">> }
          /\ scopes[s].reset_session_when_activated
    /\ \E d \in 1..Len(deps) :
          deps[d].kwargs = { <<"endpoint_url", "e1">>, <<"boto_kwargs", "None">> }

\* C33: every handle in the cache of any scope was constructed with
\* settings equal to the current boto_kwargs of the descriptor it is stored
\* under, also after the descriptor's boto_kwargs were assigned while another
\* scope was current.
C33_CachedHandleBuiltWithCurrentSettings ==
    \A s \in 1..Len(scopes) : \A p \in scopes[s].store :
        handles[p[2]].kwargs = KwargsOf(p[1], deps, rootKwargs)

\* C34: in every scope a cache that is not empty implies a built session,
\* and every cached handle was constructed from the session object the
\* scope holds now.
C34_CachedHandlesFromCurrentSession ==
    \A s \in 1..Len(scopes) :
        scopes[s].store # {} =>
            /\ scopes[s].session # 0
            /\ \A p \in scopes[s].store : handles[p[2]].session = scopes[s].session

\* A scope was reset and has built its second session since; its cache
\* holds a handle again.
C34_Witness ==
    \E s \in 1..Len(scopes) :
        /\ scopes[s].store # {}
        /\ \E i \in 1..Len(sessions) :
              i < scopes[s].session /\ sessions[i] = DeadSession

\* The step entered an override / left one.
Entered(t) == Len(stack'[t]) = Len(stack[t]) + 1
Exited(t)  == Len(stack'[t]) = Len(stack[t]) - 1

\* Scope s is a flagged BotoSession that the step activated.
ActivatedWithFlag(t, s) ==
    /\ Entered(t)
    /\ stack'[t][Len(stack'[t])] = [cls |-> SessionCls, obj |-> s,
                                     before |-> CurrentSession(t)]
    /\ scopes[s].reset_session_when_activated

\* Scope s is the BotoSession of a `with` statement that the step left:
\* nothing refers to the object any more.
Forgotten(t, s) ==
    /\ Exited(t)
    /\ stack[t][Len(stack[t])].cls = SessionCls
    /\ stack[t][Len(stack[t])].obj = s
    /\ ~scopes[s].kept

\* C35: entering or leaving an override, of a BotoSession or of a
\* descriptor, changes what is current and nothing else: every scope keeps
\* its session and its cache, every descriptor its options; only a scope
\* with reset_session_when_activated that the step activates is reset.
C35_OverridesChangeOnlyWhatIsCurrent ==
    [][(Entered(Main) \/ Exited(Main)) =>
          /\ \A s \in 1..Len(scopes) :
                IF ActivatedWithFlag(Main, s)
                THEN scopes'[s].session = 0 /\ scopes'[s].store = {}
                ELSE \/ Forgotten(Main, s)
                     \/ /\ scopes'[s].session = scopes[s].session
                        /\ scopes'[s].store = scopes[s].store
                        /\ scopes'[s].kwargs = scopes[s].kwargs
          /\ rootKwargs' = rootKwargs
          /\ \A d \in 1..Len(deps) : deps'[d] = deps[d]
          /\ stack'[Main] # stack[Main]]_vars

\* Inside a descriptor override, itself inside a kept BotoSession: that
\* scope and the default one both still hold their handles.
C35_Witness ==
    /\ Len(stack[Main]) = 2
    /\ stack[Main][1].cls = SessionCls
    /\ scopes[stack[Main][1].obj].kept
    /\ scopes[stack[Main][1].obj].store # {}
    /\ stack[Main][2].cls # SessionCls
    /\ scopes[RootScope].store # {}

C37_NormalizeIdempotent ==
    [][\A k \in Kinds, b \in RegRawNames :
         (looked'.kind = k /\ looked'.raw = b /\ GetDependencyCls(k, b)) =>
             LET n == classes'[looked'.cls][2]
             IN  /\ normalize(normalize(b)) = normalize(b)
                 /\ DependencyCls(table', classes', k, n).cls = looked'.cls]_vars

\* The raw name ends with two or more separators.
EndsWithTwoSeparators(b) ==
    Len(b) >= 2 /\ b[Len(b)] \in Separators /\ b[Len(b) - 1] \in Separators

\* C37 amended: the same for every raw name that does not end with two or
\* more separators.
C37_NormalizeIdempotentOneSeparator ==
    [][\A k \in Kinds, b \in RegRawNames :
         ( /\ looked'.kind = k /\ looked'.raw = b
           /\ ~EndsWithTwoSeparators(b)
           /\ GetDependencyCls(k, b) ) =>
             LET n == classes'[looked'.cls][2]
             IN  /\ normalize(normalize(b)) = normalize(b)
                 /\ n = normalize(b)
                 /\ DependencyCls(table', classes', k, n).cls = looked'.cls]_vars

\* The lookup of d_ created the class named d, which a lookup of d finds.
C37_Witness ==
    /\ looked.raw = <<"d", "_">>
    /\ looked.how = "created"
    /\ classes[looked.cls] = <<looked.kind, <<"d">>>>
    /\ DependencyCls(table, classes, looked.kind, <<"d">>).cls = looked.cls

\* C38: a cache hit depends on the presence of an entry only: when the
\* current scope's cache holds an object for the descriptor, whatever the
\* object is, get() and every call without force_create return that object
\* and do not invoke the constructor.
C38_HitDependsOnPresenceOnly ==
    [][LET d     == GrabDep(Main, <<SessionKind, normalize(KwRaw)>>)
           entry == StoreGet(scopes[CurrentSession(Main)].store, d)
       IN  ( /\ entry # 0
             /\ \/ Access(Main, SessionKind, KwRaw)
                \/ GetOrCreate(Main, SessionKind, KwRaw, FALSE)
                \/ GetOrCreateFalsy(Main, SessionKind, KwRaw, FALSE) )
               => /\ last'[Main].h = entry
                  /\ Len(handles') = Len(handles)]_vars
====
